---- MODULE Spec2Model ----
(***************************************************************************)
(* Session provisioning of lfg (internal/tmux/tmux.go, second revision,   *)
(* lines 125-494) and the layout resolver of internal/config.             *)
(*                                                                         *)
(* The program drives an external terminal multiplexer.  One step of the  *)
(* model is one external command (one exec.Command(...).Run()), together   *)
(* with the Go statements around it up to the next external command.      *)
(* Strings the code parses or formats are sequences of one-character      *)
(* strings; strings it only passes on are TLA+ strings.                   *)
(***************************************************************************)
EXTENDS Integers, Sequences, FiniteSets, TLC

(***************************************************************************)
(* Bounds of the model.                                                    *)
(***************************************************************************)
MaxRows == 3
MaxFail == 1
MaxCalls == 2
MaxArithRows == 4
MaxArithPanes == 4

(***************************************************************************)
(* Go helpers: strings, strconv, fmt.                                      *)
(***************************************************************************)
Digits == <<"0", "1", "2", "3", "4", "5", "6", "7", "8", "9">>

IsDigit(c) == \E i \in 1..10 : Digits[i] = c

DigitVal(c) == (CHOOSE i \in 1..10 : Digits[i] = c) - 1

IsSpace(c) == c \in {" ", "\t", "\n"}

\* strings.TrimSpace
RECURSIVE TrimLeft(_)
TrimLeft(s) ==
    IF s # <<>> /\ IsSpace(Head(s)) THEN TrimLeft(Tail(s)) ELSE s

RECURSIVE TrimRight(_)
TrimRight(s) ==
    IF s # <<>> /\ IsSpace(s[Len(s)])
    THEN TrimRight(SubSeq(s, 1, Len(s) - 1))
    ELSE s

TrimSpace(s) == TrimRight(TrimLeft(s))

\* strings.TrimSuffix(s, "%"): at most one trailing "%" is removed
TrimSuffixPct(s) ==
    IF s # <<>> /\ s[Len(s)] = "%" THEN SubSeq(s, 1, Len(s) - 1) ELSE s

RECURSIVE DigitsValue(_)
DigitsValue(s) ==
    IF s = <<>> THEN 0
    ELSE 10 * DigitsValue(SubSeq(s, 1, Len(s) - 1)) + DigitVal(s[Len(s)])

\* strconv.Atoi: an optional sign and at least one decimal digit, nothing else.
\* The result is [ok, val]; ok = FALSE is Atoi's error.
Atoi(s) ==
    LET signed == s # <<>> /\ Head(s) \in {"+", "-"}
        body   == IF signed THEN Tail(s) ELSE s
        good   == body # <<>> /\ \A i \in 1..Len(body) : IsDigit(body[i])
        mag    == IF good THEN DigitsValue(body) ELSE 0
    IN  [ok  |-> good,
         val |-> IF signed /\ Head(s) = "-" THEN 0 - mag ELSE mag]

\* strconv.Itoa / fmt's %d for a non-negative integer
RECURSIVE Itoa(_)
Itoa(n) ==
    IF n < 10 THEN <<Digits[n + 1]>>
    ELSE Itoa(n \div 10) \o <<Digits[(n % 10) + 1]>>

\* Go's integer division truncates toward zero; the divisor is not zero
GoDiv(a, b) ==
    LET abs(x) == IF x < 0 THEN 0 - x ELSE x
        q      == abs(a) \div abs(b)
    IN  IF (a < 0) = (b < 0) THEN q ELSE 0 - q

\* a parsePercentage that forgets the "%" suffix
parsePercentageNoTrim(s) ==
    LET a == Atoi(TrimSpace(s))
    IN  IF a.ok THEN a.val ELSE 0

\* parsePercentage (tmux.go 482-494)
parsePercentage(s) ==
    LET a == Atoi(TrimSuffixPct(TrimSpace(s)))
    IN  IF a.ok THEN a.val ELSE 0

\* a SanitizeSessionName that replaces the first dot only
SanitizeFirstDot(name) ==
    [i \in 1..Len(name) |->
        IF name[i] = "." /\ (\A j \in 1..(i - 1) : name[j] # ".") THEN "_" ELSE name[i]]

\* SanitizeSessionName (tmux.go 170-174): strings.ReplaceAll(name, ".", "_")
SanitizeSessionName(name) ==
    [i \in 1..Len(name) |-> IF name[i] = "." THEN "_" ELSE name[i]]

sanitizeSessionName(name) == SanitizeSessionName(name)

(***************************************************************************)
(* Configuration (config.go: TmuxWindow, Pane, LayoutRow, Config).  A nil  *)
(* or empty command is "": the code treats both alike.                     *)
(***************************************************************************)
NoCmd == ""

Pane(n, w, c) == [Name |-> n, Width |-> w, Command |-> c]

LayoutRow(h, n, c, ps) == [Height |-> h, Name |-> n, Command |-> c, Panes |-> ps]

TmuxWindow(n, c) == [Name |-> n, Command |-> c]

\* a GetLayout whose heights lack the percent sign
GetLayoutNoPercent(c) ==
    IF Len(c.Layout) > 0 THEN c.Layout
    ELSE IF Len(c.Windows) > 0
    THEN LET height == Itoa(100 \div Len(c.Windows))
         IN  [i \in 1..Len(c.Windows) |->
                LayoutRow(height, c.Windows[i].Name, c.Windows[i].Command, <<>>)]
    ELSE <<>>

\* a GetLayout that prefers the deprecated windows to the layout
GetLayoutWindowsFirst(c) ==
    IF Len(c.Windows) > 0
    THEN LET height == Itoa(100 \div Len(c.Windows)) \o <<"%">>
         IN  [i \in 1..Len(c.Windows) |->
                LayoutRow(height, c.Windows[i].Name, c.Windows[i].Command, <<>>)]
    ELSE c.Layout

\* Config.GetLayout (config.go 280-307)
GetLayout(c) ==
    IF Len(c.Layout) > 0 THEN c.Layout
    ELSE IF Len(c.Windows) > 0
    THEN LET height == Itoa(100 \div Len(c.Windows)) \o <<"%">>
         IN  [i \in 1..Len(c.Windows) |->
                LayoutRow(height, c.Windows[i].Name, c.Windows[i].Command, <<>>)]
    ELSE <<>>

(***************************************************************************)
(* Layout arithmetic of createPaneLayout.  Rows and panes are numbered     *)
(* from 0 as in the code; heights[i + 1] is the code's heights[i].         *)
(***************************************************************************)
\* tmux.go 300-307: the parsed heights, with the equal-split default
EffectiveHeights(layout) ==
    [i \in 1..Len(layout) |->
        LET height == parsePercentage(layout[i].Height)
        IN  IF height <= 0 THEN 100 \div Len(layout) ELSE height]

\* tmux.go 315-318: the sum of heights[rowIdx .. len-1]
RECURSIVE RemainingHeight(_, _)
RemainingHeight(heights, rowIdx) ==
    IF rowIdx >= Len(heights) THEN 0
    ELSE heights[rowIdx + 1] + RemainingHeight(heights, rowIdx + 1)

\* a split percentage taken of the whole work area, not of what is left
VSplitPercentOfWhole(heights, rowIdx, remainingPercent) ==
    RemainingHeight(heights, rowIdx)

\* tmux.go 322; remainingPercent is not zero
VSplitPercent(heights, rowIdx, remainingPercent) ==
    GoDiv(RemainingHeight(heights, rowIdx) * 100, remainingPercent)

\* a remainingPercent that is never decremented
NextRemainingPercentStale(heights, rowIdx, remainingPercent) == remainingPercent

\* tmux.go 334: remainingPercent after the split that created row rowIdx
NextRemainingPercent(heights, rowIdx, remainingPercent) ==
    remainingPercent - heights[rowIdx]

\* the share 1/remainingPanes, as the legacy layout computed it (tmux.go 638)
HSplitPercentOneShare(nPanes, paneIdx) ==
    GoDiv(100, nPanes - paneIdx + 1)

\* the share rounded to the nearest integer instead of truncated
HSplitPercentRounded(nPanes, paneIdx) ==
    LET remainingPanes == nPanes - paneIdx + 1
    IN  GoDiv(100 * (remainingPanes - 1) + GoDiv(remainingPanes, 2), remainingPanes)

\* tmux.go 355-356: the share of the paneIdx-th horizontal split of nPanes
HSplitPercent(nPanes, paneIdx) ==
    LET remainingPanes == nPanes - paneIdx + 1
    IN  GoDiv(100 * (remainingPanes - 1), remainingPanes)

(***************************************************************************)
(* The multiplexer: one session, its windows in order, each window's panes *)
(* in index order.  A pane records where it lies: band (how many vertical  *)
(* splits lead to it) and col (how many horizontal splits).  A new pane    *)
(* gets the next free index of its window; split-window makes it active.   *)
(***************************************************************************)
FirstPane == [band |-> 0, col |-> 0]

NewWin(n) == [name |-> n, panes |-> <<FirstPane>>, active |-> 0]

DefaultWindowName == <<"s", "h">>

NoSession == [exists |-> FALSE, session |-> <<>>, windows |-> <<>>]

\* -t session...: the session the command addresses is there
Addressed(m, s) == m.exists /\ m.session = s

\* a command addressed to session s: it fails when s is not there
OnSession(m, s, res) == IF Addressed(m, s) THEN res ELSE [ok |-> FALSE, mux |-> m]

\* the first window of the session bearing the name, 0 when there is none
FindWindow(m, n) ==
    IF \E i \in 1..Len(m.windows) : m.windows[i].name = n
    THEN CHOOSE i \in 1..Len(m.windows) :
            /\ m.windows[i].name = n
            /\ \A j \in 1..(i - 1) : m.windows[j].name # n
    ELSE 0

\* the pane a target names: index pane of the window, its active pane for -1
TargetPane(w, pane) == IF pane = -1 THEN w.active ELSE pane

HasPane(m, n, pane) ==
    /\ m.exists
    /\ FindWindow(m, n) # 0
    /\ TargetPane(m.windows[FindWindow(m, n)], pane) \in
            0..(Len(m.windows[FindWindow(m, n)].panes) - 1)

RemoveAt(seq, i) == SubSeq(seq, 1, i - 1) \o SubSeq(seq, i + 1, Len(seq))

\* tmux new-session -d -s: fails on a duplicate session
MuxNewSession(m, s) ==
    [ok |-> ~m.exists,
     mux |-> IF m.exists THEN m
             ELSE [exists |-> TRUE, session |-> s,
                   windows |-> <<NewWin(DefaultWindowName)>>]]

\* tmux rename-window -t session:0
MuxRenameWindow(m, n) ==
    [ok |-> m.exists,
     mux |-> IF m.exists THEN [m EXCEPT !.windows[1].name = n] ELSE m]

\* tmux new-window -t session -n name
MuxNewWindow(m, n) ==
    [ok |-> m.exists,
     mux |-> IF m.exists THEN [m EXCEPT !.windows = Append(@, NewWin(n))] ELSE m]

\* tmux kill-window -t session:name; a session ends with its last window
MuxKillWindow(m, n) ==
    LET i == FindWindow(m, n)
    IN  [ok |-> m.exists /\ i # 0,
         mux |-> IF m.exists /\ i # 0
                 THEN IF Len(m.windows) = 1 THEN NoSession
                      ELSE [m EXCEPT !.windows = RemoveAt(@, i)]
                 ELSE m]

\* a split-window that reports success for a horizontal split and creates
\* no pane
MuxSplitWindowNoPane(m, n, pane, flag) ==
    IF HasPane(m, n, pane)
    THEN LET i   == FindWindow(m, n)
             w   == m.windows[i]
             old == w.panes[TargetPane(w, pane) + 1]
         IN  [ok |-> TRUE,
              mux |-> IF flag = "-v"
                      THEN [m EXCEPT !.windows[i] =
                              [w EXCEPT !.panes = Append(@, [band |-> old.band + 1,
                                                             col |-> old.col]),
                                        !.active = Len(w.panes)]]
                      ELSE m]
    ELSE [ok |-> FALSE, mux |-> m]

\* tmux split-window -t session:name[.pane] -v|-h -p pct
MuxSplitWindow(m, n, pane, flag) ==
    IF HasPane(m, n, pane)
    THEN LET i   == FindWindow(m, n)
             w   == m.windows[i]
             old == w.panes[TargetPane(w, pane) + 1]
             new == IF flag = "-v"
                    THEN [band |-> old.band + 1, col |-> old.col]
                    ELSE [band |-> old.band, col |-> old.col + 1]
         IN  [ok |-> TRUE,
              mux |-> [m EXCEPT !.windows[i] =
                         [w EXCEPT !.panes = Append(@, new),
                                   !.active = Len(w.panes)]]]
    ELSE [ok |-> FALSE, mux |-> m]

\* tmux select-pane -t session:name.pane
MuxSelectPane(m, n, pane) ==
    IF HasPane(m, n, pane)
    THEN [ok |-> TRUE,
          mux |-> [m EXCEPT !.windows[FindWindow(m, n)].active = pane]]
    ELSE [ok |-> FALSE, mux |-> m]

\* The area split among n panes by n - 1 splits, in units small enough that
\* every share is a whole number: 100 percentage points of 100^(n-2) units
RECURSIVE ShareTotal(_)
ShareTotal(n) == IF n <= 1 THEN 1 ELSE 100 * ShareTotal(n - 1)

\* split-window -p pct on the pane holding shares[i]: the new pane gets pct
\* percent of it, the pane split keeps the rest (tmux.go 320-321, 354)
MuxSplitShare(shares, i, pct) ==
    LET new == (shares[i] \div 100) * pct
    IN  Append([shares EXCEPT ![i] = @ - new], new)

\* strings.Split(strings.TrimSpace(output), "\n") (tmux.go 191) of an output
\* of one name per line: blank lines at either end are trimmed away, blank
\* lines inside stay, and an output of blank lines only is one empty line.
\* (The names tried carry no white space of their own.)
OutputLines(names) ==
    LET nonblank == {i \in 1..Len(names) : names[i] # <<>>}
        first    == CHOOSE i \in nonblank : \A j \in nonblank : i <= j
        last     == CHOOSE i \in nonblank : \A j \in nonblank : i >= j
    IN  IF nonblank = {} THEN << <<>> >> ELSE SubSeq(names, first, last)

\* window names listed with their dots replaced, as the session name is
WindowNamesSanitized(m) ==
    OutputLines([i \in 1..Len(m.windows) |-> SanitizeSessionName(m.windows[i].name)])

\* tmux list-windows -F "#{window_name}", split into lines (tmux.go 184-191)
WindowNames(m) == OutputLines([i \in 1..Len(m.windows) |-> m.windows[i].name])

(***************************************************************************)
(* What one call leaves behind: the commands it issued, the warnings it    *)
(* printed, its result.                                                    *)
(***************************************************************************)
Op(cmd, pane, flag, pct, arg, ok) ==
    [cmd |-> cmd, pane |-> pane, flag |-> flag, pct |-> pct, arg |-> arg, ok |-> ok]

Err(step, row, pane) == [step |-> step, row |-> row, pane |-> pane]

Nil == Err("", -1, -1)

Running == [state |-> "running", err |-> Nil]

Returned(e) == [state |-> "returned", err |-> e]

Panicked == [state |-> "panic", err |-> Err("integer divide by zero", -1, -1)]

(***************************************************************************)
(* Inputs: the rows a layout is made of, legacy windows, worktree names,   *)
(* and the sessions a call may find.                                       *)
(***************************************************************************)
RowPool ==
    << LayoutRow(<<"1", "0", "0", "%">>, "server", "npm start", <<>>),
       LayoutRow(<<"5", "0", "%">>, "", NoCmd,
                 <<Pane("edit", <<"5", "0", "%">>, "vim"), Pane("sh", <<>>, NoCmd)>>),
       LayoutRow(<<"3", "0", "%">>, "logs", NoCmd, <<Pane("only", <<>>, "tail")>>),
       LayoutRow(<<"2", "0", "%">>, "", NoCmd,
                 <<Pane("a", <<>>, NoCmd), Pane("b", <<>>, "top"),
                   Pane("c", <<>>, NoCmd), Pane("d", <<>>, "htop")>>) >>

\* the orders the rows of the pool are taken in: heights 50, 30, 20, 100;
\* 100, 20, 30, 50 (nothing is left after the first row); 50, 100, 30, 20
\* (the rows above the last two take more than the whole)
RowOrders == {<<2, 3, 4, 1>>, <<1, 4, 3, 2>>, <<2, 1, 3, 4>>}

\* the rows of the pool at the places I of the order o, in that order
Pick(o, I) ==
    LET F[k \in 0..Len(o)] ==
            IF k = 0 THEN <<>>
            ELSE IF k \in I THEN Append(F[k - 1], RowPool[o[k]]) ELSE F[k - 1]
    IN  F[Len(o)]

\* the layouts tried: up to MaxRows rows of the pool, in one of the orders
Layouts ==
    {Pick(o, I) : o \in RowOrders,
                  I \in {J \in SUBSET (1..Len(RowPool)) : Cardinality(J) <= MaxRows}}

\* the deprecated windows list: the first windows of a fixed list
WindowPool ==
    <<TmuxWindow("code", NoCmd), TmuxWindow("server", "npm start"),
      TmuxWindow("logs", "tail"), TmuxWindow("shell", NoCmd)>>

LegacyWindows == {SubSeq(WindowPool, 1, k) : k \in 0..MaxRows}

\* a configuration has a layout, a windows list, or both
Configs ==
    {[Layout |-> l, Windows |-> <<>>] : l \in Layouts}
    \cup {[Layout |-> <<>>, Windows |-> w] : w \in LegacyWindows}
    \cup {[Layout |-> l, Windows |-> SubSeq(WindowPool, 1, 2)] :
             l \in {x \in Layouts : Len(x) = 1 /\ x[1].Panes = <<>>}}

Names == {<<"w", ".", "t">>}

\* the sessions a call may find: none, one left with the marker window, one
\* whose windows bear other names, one whose only window has an empty name
Sessions(n) ==
    {NoSession}
    \cup {[exists |-> TRUE, session |-> SanitizeSessionName(n),
           windows |-> [i \in 1..Len(w) |-> NewWin(w[i])]] :
             w \in {<<n>>, <<<<"v", "i", "m">>, <<"l", "o", "g">>>>, << <<>> >>}}

(***************************************************************************)
(* State.                                                                  *)
(*   cfg, name   the arguments of CreateOrAttachSession                    *)
(*   mux         the multiplexer's session                                 *)
(*   run[p]      the call process p is in: position, locals, log, result   *)
(*   calls       calls finished so far                                     *)
(*   fails       external commands that failed for an outside reason       *)
(*   arith       the layout arithmetic on its own (SpecArith)              *)
(*   conf        the functions of the configuration on their own           *)
(*               (SpecConfig)                                              *)
(*   twin        createPaneLayout run on two layouts side by side, every   *)
(*               command succeeding (SpecWidths)                           *)
(***************************************************************************)
VARIABLES cfg, name, mux, run, calls, fails, arith, conf, twin

vars == <<cfg, name, mux, run, calls, fails, arith, conf, twin>>

IdleRun ==
    [pc |-> "idle", path |-> "", prevPath |-> "", prevResult |-> Running,
     sessionName |-> <<>>, lines |-> <<>>, killIdx |-> 0,
     layout |-> <<>>, heights |-> <<>>,
     paneIndex |-> 0, remainingPercent |-> 0, rowIdx |-> 0, paneIdx |-> 0,
     rowStartPane |-> 0,
     result |-> Running, log |-> <<>>, warnings |-> <<>>]

ArithIdle ==
    [mode |-> "off", step |-> "off", rows |-> <<>>, nPanes |-> 0, heights |-> <<>>,
     rowIdx |-> 0, paneIdx |-> 0, paneIndex |-> 0, remainingPercent |-> 0,
     ops |-> <<>>, shares |-> <<>>]

ConfIdle ==
    [mode |-> "off", done |-> FALSE,
     given |-> [Layout |-> <<>>, Windows |-> <<>>],
     cfg |-> [Layout |-> <<>>, Windows |-> <<>>], layout |-> <<>>,
     name |-> <<>>, out |-> <<>>, again |-> <<>>,
     worktree |-> "", todosGiven |-> <<>>, todos |-> <<>>]

\* the locals of createPaneLayout (tmux.go 250-401) and the commands issued
IdleBuild ==
    [pc |-> "off", layout |-> <<>>, heights |-> <<>>,
     paneIndex |-> 0, remainingPercent |-> 0, rowIdx |-> 0, paneIdx |-> 0,
     rowStartPane |-> 0, log |-> <<>>]

TwinIdle == [on |-> FALSE, a |-> IdleBuild, b |-> IdleBuild]

Init ==
    /\ cfg \in Configs
    /\ name \in Names
    /\ mux \in Sessions(name)
    /\ run = [p \in {1} |-> IdleRun]
    /\ calls = 0
    /\ fails = 0
    /\ arith = ArithIdle
    /\ conf = ConfIdle
    /\ twin = TwinIdle

(***************************************************************************)
(* Where the second pass of createPaneLayout (tmux.go 346-391) issues its  *)
(* next command.  Rows and panes without a command issue none, so the      *)
(* loops run on to the next split or send-keys, or to select-pane.         *)
(***************************************************************************)
Pos(pc, rowIdx, paneIdx, rowStartPane, paneIndex) ==
    [pc |-> pc, rowIdx |-> rowIdx, paneIdx |-> paneIdx,
     rowStartPane |-> rowStartPane, paneIndex |-> paneIndex]

RECURSIVE SeekRow(_, _, _)
RECURSIVE SeekSend(_, _, _, _)

\* a loop head that splits a row of one sub-pane too
SeekRowSplitsSingle(layout, rowIdx, paneIndex) ==
    IF rowIdx >= Len(layout) THEN Pos("select-pane", rowIdx, 0, 0, paneIndex)
    ELSE LET row == layout[rowIdx + 1]
         IN  IF Len(row.Panes) > 0
             THEN Pos("hsplit", rowIdx, 1, paneIndex, paneIndex)
             ELSE IF row.Command # NoCmd
                  THEN Pos("send-row", rowIdx, 0, 0, paneIndex)
                  ELSE SeekRow(layout, rowIdx + 1, paneIndex + 1)

\* tmux.go 347-349, 379-390: the loop head at row rowIdx
SeekRow(layout, rowIdx, paneIndex) ==
    IF rowIdx >= Len(layout) THEN Pos("select-pane", rowIdx, 0, 0, paneIndex)
    ELSE LET row == layout[rowIdx + 1]
         IN  IF Len(row.Panes) > 0
             THEN IF Len(row.Panes) > 1
                  THEN Pos("hsplit", rowIdx, 1, paneIndex, paneIndex)
                  ELSE SeekSend(layout, rowIdx, 0, paneIndex)
             ELSE IF row.Command # NoCmd
                  THEN Pos("send-row", rowIdx, 0, 0, paneIndex)
                  ELSE SeekRow(layout, rowIdx + 1, paneIndex + 1)

\* tmux.go 367-378: the command loop of a multi-pane row at pane paneIdx
SeekSend(layout, rowIdx, paneIdx, rowStartPane) ==
    LET row == layout[rowIdx + 1]
    IN  IF paneIdx >= Len(row.Panes)
        THEN SeekRow(layout, rowIdx + 1, rowStartPane + Len(row.Panes))
        ELSE IF row.Panes[paneIdx + 1].Command # NoCmd
             THEN Pos("send-pane", rowIdx, paneIdx, rowStartPane, rowStartPane)
             ELSE SeekSend(layout, rowIdx, paneIdx + 1, rowStartPane)

At(r, pos) ==
    [r EXCEPT !.pc = pos.pc, !.rowIdx = pos.rowIdx, !.paneIdx = pos.paneIdx,
              !.rowStartPane = pos.rowStartPane, !.paneIndex = pos.paneIndex]

(***************************************************************************)
(* Running an external command: it does what the multiplexer does with    *)
(* it, or fails for an outside reason and changes nothing.                 *)
(***************************************************************************)
Inject == IF fails < MaxFail THEN BOOLEAN ELSE {FALSE}

Exec(nat, inj) ==
    [ok    |-> nat.ok /\ ~inj,
     mux   |-> IF nat.ok /\ ~inj THEN nat.mux ELSE mux,
     fails |-> IF nat.ok /\ inj THEN fails + 1 ELSE fails]

Logged(r, op) == [r EXCEPT !.log = Append(@, op)]

Warned(r, what, e) == [r EXCEPT !.warnings = Append(@, [what |-> what, err |-> e])]

\* every failure handled as ensureWindows' failure is: warn and attach
AbortAndAttach(r, e) ==
    [Warned(r, "failed to ensure windows", e) EXCEPT !.pc = "attach"]

\* an error path that tears the session down before it goes on
AbortKillSession(r, e) ==
    LET r1 == Logged(r, Op("kill-session", -1, "", 0, "", TRUE))
    IN  IF r.path = "fresh"
        THEN [r1 EXCEPT !.pc = "done", !.result = Returned(e)]
        ELSE [Warned(r1, "failed to ensure windows", e) EXCEPT !.pc = "attach"]

\* a fatal error inside createSession / ensureWindows / createPaneLayout:
\* createSession's error is the call's result (tmux.go 167); ensureWindows'
\* error is printed and the call goes on to attach (tmux.go 160-163)
Abort(r, e) ==
    IF r.path = "fresh"
    THEN [r EXCEPT !.pc = "done", !.result = Returned(e)]
    ELSE [Warned(r, "failed to ensure windows", e) EXCEPT !.pc = "attach"]

\* createPaneLayout without the check of tmux.go 256-258: an empty layout
\* is built like any other
EnterLayoutUnchecked(r) ==
    [r EXCEPT !.layout = GetLayout(cfg), !.pc = "split-desc"]

\* tmux.go 252-258: createPaneLayout up to its first command
EnterLayout(r) ==
    LET layout == GetLayout(cfg)
    IN  IF Len(layout) = 0
        THEN Abort(r, Err("no layout defined in config", -1, -1))
        ELSE [r EXCEPT !.layout = layout, !.pc = "split-desc"]

Step(p, r, ex) ==
    /\ run' = [run EXCEPT ![p] = r]
    /\ mux' = ex.mux
    /\ fails' = ex.fails
    /\ UNCHANGED <<cfg, name, calls, arith, conf, twin>>

NoExec == [ok |-> TRUE, mux |-> mux, fails |-> fails]

(***************************************************************************)
(* CreateOrAttachSession (tmux.go 150-168) and what it calls.             *)
(***************************************************************************)
\* the call without the check of tmux.go 151: it goes on to has-session
\* whether or not the binary was found
CallUnchecked(p) ==
    /\ run[p].pc = "idle"
    /\ calls < MaxCalls
    /\ \E installed \in BOOLEAN :
         LET r0 == [IdleRun EXCEPT !.prevPath = run[p].prevPath,
                                   !.prevResult = run[p].prevResult]
         IN  Step(p,
                  [r0 EXCEPT !.pc = "has-session",
                             !.path = IF installed THEN "" ELSE "none",
                             !.sessionName = sanitizeSessionName(name)],
                  NoExec)

\* tmux.go 150-156: the call starts; exec.LookPath decides IsInstalled
Call(p) ==
    /\ run[p].pc = "idle"
    /\ calls < MaxCalls
    /\ \E installed \in BOOLEAN :
         LET r0 == [IdleRun EXCEPT !.prevPath = run[p].prevPath,
                                   !.prevResult = run[p].prevResult]
         IN  Step(p,
                  IF installed
                  THEN [r0 EXCEPT !.pc = "has-session",
                                  !.sessionName = sanitizeSessionName(name)]
                  ELSE [r0 EXCEPT !.pc = "done", !.path = "none",
                                  !.result = Returned(Err("tmux is not installed", -1, -1))],
                  NoExec)

\* tmux.go 159, 144-147: SessionExists
HasSession(p) ==
    LET r  == run[p]
        ok == Addressed(mux, r.sessionName)
    IN  /\ r.pc = "has-session"
        /\ Step(p,
                [Logged(r, Op("has-session", -1, "", 0, "", ok))
                    EXCEPT !.pc = IF ok THEN "list-windows" ELSE "new-session",
                           !.path = IF ok THEN "exists" ELSE "fresh"],
                NoExec)

\* an ensureWindows that takes the marker window for provisioned only when
\* it holds the panes of the prefix at least (pane 2 is there)
ListWindowsShapeAware(p) ==
    LET r == run[p]
    IN  /\ r.pc = "list-windows"
        /\ \E inj \in Inject :
             LET ex    == Exec(OnSession(mux, r.sessionName, [ok |-> TRUE, mux |-> mux]), inj)
                 lines == WindowNames(mux)
                 has   == /\ \E i \in 1..Len(lines) : lines[i] = name
                          /\ HasPane(mux, name, 2)
                 r1    == Logged(r, Op("list-windows", -1, "", 0, "", ex.ok))
             IN  Step(p,
                      IF ~ex.ok
                      THEN Abort(r1, Err("failed to list windows", -1, -1))
                      ELSE IF has
                      THEN [r1 EXCEPT !.lines = lines, !.path = "marker", !.pc = "attach"]
                      ELSE [r1 EXCEPT !.lines = lines, !.path = "rebuild",
                                      !.killIdx = 1, !.pc = "kill-window"],
                      ex)

\* tmux.go 184-200: ensureWindows lists the windows and looks for the marker
ListWindows(p) ==
    LET r == run[p]
    IN  /\ r.pc = "list-windows"
        /\ \E inj \in Inject :
             LET ex    == Exec(OnSession(mux, r.sessionName, [ok |-> TRUE, mux |-> mux]), inj)
                 lines == WindowNames(mux)
                 has   == \E i \in 1..Len(lines) : lines[i] = name
                 r1    == Logged(r, Op("list-windows", -1, "", 0, "", ex.ok))
             IN  Step(p,
                      IF ~ex.ok
                      THEN Abort(r1, Err("failed to list windows", -1, -1))
                      ELSE IF has
                      THEN [r1 EXCEPT !.lines = lines, !.path = "marker", !.pc = "attach"]
                      ELSE [r1 EXCEPT !.lines = lines, !.path = "rebuild",
                                      !.killIdx = 1, !.pc = "kill-window"],
                      ex)

\* tmux.go 202-207: one round of the kill loop; an empty line is passed
\* over, the error of kill-window is ignored
KillWindow(p) ==
    LET r    == run[p]
        line == r.lines[r.killIdx]
        on   == [r EXCEPT !.killIdx = r.killIdx + 1,
                          !.pc = IF r.killIdx >= Len(r.lines) THEN "new-window"
                                 ELSE "kill-window"]
    IN  /\ r.pc = "kill-window"
        /\ IF line = <<>>
           THEN Step(p, on, NoExec)
           ELSE \E inj \in Inject :
                  LET ex == Exec(OnSession(mux, r.sessionName,
                                           MuxKillWindow(mux, line)), inj)
                  IN  Step(p, Logged(on, Op("kill-window", -1, "", 0, line, ex.ok)), ex)

\* tmux.go 210-216: the new marker window, then createPaneLayout
NewWindow(p) ==
    LET r == run[p]
    IN  /\ r.pc = "new-window"
        /\ \E inj \in Inject :
             LET ex == Exec(OnSession(mux, r.sessionName, MuxNewWindow(mux, name)), inj)
                 r1 == Logged(r, Op("new-window", -1, "", 0, name, ex.ok))
             IN  Step(p,
                      IF ex.ok THEN EnterLayout(r1)
                      ELSE Abort(r1, Err("failed to create worktree window", -1, -1)),
                      ex)

\* tmux.go 223-233: createSession checks the path and creates the session
NewSession(p) ==
    LET r == run[p]
    IN  /\ r.pc = "new-session"
        /\ \/ Step(p, Abort(r, Err("path does not exist", -1, -1)), NoExec)
           \/ \E inj \in Inject :
                LET ex == Exec(MuxNewSession(mux, r.sessionName), inj)
                    r1 == Logged(r, Op("new-session", -1, "", 0, r.sessionName, ex.ok))
                IN  Step(p,
                         IF ex.ok THEN [r1 EXCEPT !.pc = "rename-window"]
                         ELSE Abort(r1, Err("failed to create session", -1, -1)),
                         ex)

\* a RenameWindow whose failure is a warning, as that of mouse mode is
RenameWindowLenient(p) ==
    LET r == run[p]
    IN  /\ r.pc = "rename-window"
        /\ \E inj \in Inject :
             LET ex == Exec(OnSession(mux, r.sessionName, MuxRenameWindow(mux, name)), inj)
                 r1 == Logged(r, Op("rename-window", -1, "", 0, name, ex.ok))
             IN  Step(p,
                      [(IF ex.ok THEN r1 ELSE Warned(r1, "failed to rename window", Nil))
                          EXCEPT !.pc = "mouse"],
                      ex)

\* tmux.go 236-239
RenameWindow(p) ==
    LET r == run[p]
    IN  /\ r.pc = "rename-window"
        /\ \E inj \in Inject :
             LET ex == Exec(OnSession(mux, r.sessionName, MuxRenameWindow(mux, name)), inj)
                 r1 == Logged(r, Op("rename-window", -1, "", 0, name, ex.ok))
             IN  Step(p,
                      IF ex.ok THEN [r1 EXCEPT !.pc = "mouse"]
                      ELSE Abort(r1, Err("failed to rename window", -1, -1)),
                      ex)

\* tmux.go 242-247: mouse mode (a warning when it fails), then createPaneLayout
MouseOn(p) ==
    LET r == run[p]
    IN  /\ r.pc = "mouse"
        /\ \E inj \in Inject :
             LET ex == Exec(OnSession(mux, r.sessionName, [ok |-> TRUE, mux |-> mux]), inj)
                 r1 == Logged(r, Op("set-option", -1, "", 0, "mouse on", ex.ok))
             IN  Step(p,
                      EnterLayout(IF ex.ok THEN r1
                                  ELSE Warned(r1, "failed to enable mouse mode", Nil)),
                      ex)

(***************************************************************************)
(* createPaneLayout (tmux.go 250-401).                                     *)
(***************************************************************************)
\* the legacy layout's first split and its bottom pane (tmux.go 614, 621)
LegacyTopSplitPercent == 85

LegacyBottomPane == 1

StatusSplitPercent == 95

AgentSplitPercent == 55

AgentPane == 1

FirstRowPane == 2

\* tmux.go 262-265: the status pane is split off the window's active pane
SplitDesc(p) ==
    LET r == run[p]
    IN  /\ r.pc = "split-desc"
        /\ \E inj \in Inject :
             LET ex == Exec(OnSession(mux, r.sessionName,
                                      MuxSplitWindow(mux, name, -1, "-v")), inj)
                 r1 == Logged(r, Op("split-window", -1, "-v", StatusSplitPercent, "", ex.ok))
             IN  Step(p,
                      IF ex.ok THEN [r1 EXCEPT !.pc = "setup-desc"]
                      ELSE Abort(r1, Err("failed to create description pane", -1, -1)),
                      ex)

\* tmux.go 272-275, 403-419: setupDescriptionPane, a warning when it fails
SetupDesc(p) ==
    LET r == run[p]
    IN  /\ r.pc = "setup-desc"
        /\ \E inj \in Inject :
             LET ex == Exec(OnSession(mux, r.sessionName,
                                      [ok |-> HasPane(mux, name, 0), mux |-> mux]), inj)
                 r1 == Logged(r, Op("send-keys", 0, "", 0, "lfg --view", ex.ok))
             IN  Step(p,
                      [(IF ex.ok THEN r1
                        ELSE Warned(r1, "failed to setup description pane", Nil))
                          EXCEPT !.pc = "split-agent"],
                      ex)

\* tmux.go 279-282: the agent pane keeps the top of pane 1
SplitAgent(p) ==
    LET r == run[p]
    IN  /\ r.pc = "split-agent"
        /\ \E inj \in Inject :
             LET ex == Exec(OnSession(mux, r.sessionName,
                                      MuxSplitWindow(mux, name, AgentPane, "-v")), inj)
                 r1 == Logged(r, Op("split-window", AgentPane, "-v", AgentSplitPercent, "", ex.ok))
             IN  Step(p,
                      IF ex.ok THEN [r1 EXCEPT !.pc = "setup-agent"]
                      ELSE Abort(r1, Err("failed to create agent pane", -1, -1)),
                      ex)

\* tmux.go 290-313, 421-438: setupAgentPane (a warning when it fails), the
\* heights, and the head of the row loop
SetupAgent(p) ==
    LET r == run[p]
    IN  /\ r.pc = "setup-agent"
        /\ \E inj \in Inject :
             LET ex == Exec(OnSession(mux, r.sessionName,
                                      [ok |-> HasPane(mux, name, AgentPane), mux |-> mux]), inj)
                 r1 == Logged(r, Op("send-keys", AgentPane, "", 0, "lfg --agent", ex.ok))
                 r2 == IF ex.ok THEN r1
                       ELSE Warned(r1, "failed to setup agent pane", Nil)
                 r3 == [r2 EXCEPT !.heights = EffectiveHeights(r.layout),
                                  !.remainingPercent = 100]
             IN  Step(p,
                      IF 1 < Len(r.layout)
                      THEN [r3 EXCEPT !.pc = "vsplit", !.rowIdx = 1,
                                      !.paneIndex = FirstRowPane]
                      ELSE At(r3, SeekRow(r.layout, 0, FirstRowPane)),
                      ex)

\* tmux.go 313-336: one round of the row loop.  Dividing by a remainingPercent
\* of zero is a run-time panic: the process ends there.
VSplit(p) ==
    LET r == run[p]
    IN  /\ r.pc = "vsplit"
        /\ IF r.remainingPercent = 0
           THEN Step(p, [r EXCEPT !.pc = "done", !.result = Panicked], NoExec)
           ELSE \E inj \in Inject :
                LET splitPercent == VSplitPercent(r.heights, r.rowIdx, r.remainingPercent)
                    ex == Exec(OnSession(mux, r.sessionName,
                                         MuxSplitWindow(mux, name, r.paneIndex, "-v")), inj)
                    r1 == Logged(r, Op("split-window", r.paneIndex, "-v", splitPercent, "", ex.ok))
                    r2 == [r1 EXCEPT !.remainingPercent =
                                        NextRemainingPercent(r.heights, r.rowIdx, @),
                                     !.paneIndex = @ + 1,
                                     !.rowIdx = @ + 1]
                IN  Step(p,
                         IF ~ex.ok
                         THEN Abort(r1, Err("failed to create row", r.rowIdx, -1))
                         ELSE IF r2.rowIdx < Len(r.layout) THEN r2
                         ELSE At(r2, SeekRow(r.layout, 0, FirstRowPane)),
                         ex)

\* a share that honours the width hint of the pane that keeps the left part
RowHSplitPercentByWidth(row, paneIdx) ==
    LET width == parsePercentage(row.Panes[paneIdx].Width)
    IN  IF width > 0 /\ width < 100 THEN 100 - width
        ELSE HSplitPercent(Len(row.Panes), paneIdx)

\* tmux.go 355-356: the share of the paneIdx-th horizontal split of a row,
\* worked out from the number of its panes
RowHSplitPercent(row, paneIdx) == HSplitPercent(Len(row.Panes), paneIdx)

\* a horizontal split that sends the new pane its command at once, before
\* the row's next split
HSplitAndSend(p) ==
    LET r == run[p]
    IN  /\ r.pc = "hsplit"
        /\ \E inj \in Inject :
             LET row == r.layout[r.rowIdx + 1]
                 nPanes == Len(row.Panes)
                 hSplitPercent == RowHSplitPercent(row, r.paneIdx)
                 ex == Exec(OnSession(mux, r.sessionName,
                                      MuxSplitWindow(mux, name, r.rowStartPane, "-h")), inj)
                 r1 == Logged(r, Op("split-window", r.rowStartPane, "-h", hSplitPercent, "", ex.ok))
                 r2 == IF row.Panes[r.paneIdx + 1].Command # NoCmd
                       THEN Logged(r1, Op("send-keys", r.rowStartPane + r.paneIdx, "", 0,
                                          row.Panes[r.paneIdx + 1].Command, TRUE))
                       ELSE r1
             IN  Step(p,
                      IF ~ex.ok
                      THEN Abort(r1, Err("failed to create horizontal pane", r.rowIdx, r.paneIdx))
                      ELSE IF r.paneIdx + 1 < nPanes
                      THEN [r2 EXCEPT !.paneIdx = @ + 1]
                      ELSE At(r2, SeekSend(r.layout, r.rowIdx, 0, r.rowStartPane)),
                      ex)

\* tmux.go 353-364: one horizontal split of a multi-pane row
HSplit(p) ==
    LET r == run[p]
    IN  /\ r.pc = "hsplit"
        /\ \E inj \in Inject :
             LET nPanes == Len(r.layout[r.rowIdx + 1].Panes)
                 hSplitPercent == RowHSplitPercent(r.layout[r.rowIdx + 1], r.paneIdx)
                 ex == Exec(OnSession(mux, r.sessionName,
                                      MuxSplitWindow(mux, name, r.rowStartPane, "-h")), inj)
                 r1 == Logged(r, Op("split-window", r.rowStartPane, "-h", hSplitPercent, "", ex.ok))
             IN  Step(p,
                      IF ~ex.ok
                      THEN Abort(r1, Err("failed to create horizontal pane", r.rowIdx, r.paneIdx))
                      ELSE IF r.paneIdx + 1 < nPanes
                      THEN [r1 EXCEPT !.paneIdx = @ + 1]
                      ELSE At(r1, SeekSend(r.layout, r.rowIdx, 0, r.rowStartPane)),
                      ex)

\* a SendPane whose failure ends the build the way a failed split does
SendPaneFatal(p) ==
    LET r == run[p]
    IN  /\ r.pc = "send-pane"
        /\ \E inj \in Inject :
             LET pane == r.layout[r.rowIdx + 1].Panes[r.paneIdx + 1]
                 ex == Exec(OnSession(mux, r.sessionName,
                                      [ok |-> HasPane(mux, name, r.rowStartPane + r.paneIdx),
                                       mux |-> mux]), inj)
                 r1 == Logged(r, Op("send-keys", r.rowStartPane + r.paneIdx, "", 0,
                                    pane.Command, ex.ok))
             IN  Step(p,
                      IF ex.ok
                      THEN At(r1, SeekSend(r.layout, r.rowIdx, r.paneIdx + 1, r.rowStartPane))
                      ELSE Abort(r1, Err("failed to run command in pane", r.rowIdx, r.paneIdx)),
                      ex)

\* tmux.go 367-375: the command of one pane of a multi-pane row
SendPane(p) ==
    LET r == run[p]
    IN  /\ r.pc = "send-pane"
        /\ \E inj \in Inject :
             LET pane == r.layout[r.rowIdx + 1].Panes[r.paneIdx + 1]
                 ex == Exec(OnSession(mux, r.sessionName,
                                      [ok |-> HasPane(mux, name, r.rowStartPane + r.paneIdx),
                                       mux |-> mux]), inj)
                 r1 == Logged(r, Op("send-keys", r.rowStartPane + r.paneIdx, "", 0,
                                    pane.Command, ex.ok))
                 r2 == IF ex.ok THEN r1
                       ELSE Warned(r1, "failed to run command in pane", Err(pane.Name, -1, -1))
             IN  Step(p, At(r2, SeekSend(r.layout, r.rowIdx, r.paneIdx + 1, r.rowStartPane)), ex)

\* tmux.go 380-389: the command of a single-pane row
SendRow(p) ==
    LET r == run[p]
    IN  /\ r.pc = "send-row"
        /\ \E inj \in Inject :
             LET row == r.layout[r.rowIdx + 1]
                 ex == Exec(OnSession(mux, r.sessionName,
                                      [ok |-> HasPane(mux, name, r.paneIndex), mux |-> mux]), inj)
                 r1 == Logged(r, Op("send-keys", r.paneIndex, "", 0, row.Command, ex.ok))
                 r2 == IF ex.ok THEN r1
                       ELSE Warned(r1, "failed to run command in pane", Err(row.Name, -1, -1))
             IN  Step(p, At(r2, SeekRow(r.layout, r.rowIdx + 1, r.paneIndex + 1)), ex)

\* tmux.go 394-397: the agent pane is selected, a warning when that fails
SelectPane(p) ==
    LET r == run[p]
    IN  /\ r.pc = "select-pane"
        /\ \E inj \in Inject :
             LET ex == Exec(OnSession(mux, r.sessionName,
                                      MuxSelectPane(mux, name, AgentPane)), inj)
                 r1 == Logged(r, Op("select-pane", AgentPane, "", 0, "", ex.ok))
             IN  Step(p,
                      [(IF ex.ok THEN r1
                        ELSE Warned(r1, "failed to select agent pane", Nil))
                          EXCEPT !.pc = "attach-layout"],
                      ex)

\* attachSession (tmux.go 440-454): switch-client inside a client (TMUX set),
\* attach-session otherwise; the log keeps the value of TMUX with the command
\* an attachSession that never looks at TMUX
AttachCmdAlways(inTmux) == "attach-session"

AttachCmd(inTmux) == IF inTmux THEN "switch-client" ELSE "attach-session"

\* os.Getenv("TMUX") (tmux.go 442): unset or empty outside a client, the
\* client's socket inside one
TmuxEnvs == {"", "/tmp/tmux-1000/default,4242,0"}

AttachErr(ok) == IF ok THEN Nil ELSE Err("attach", -1, -1)

\* tmux.go 400: createPaneLayout ends with attachSession; its result is the
\* call's on the fresh path, ensureWindows' on the rebuild path
AttachLayout(p) ==
    LET r == run[p]
    IN  /\ r.pc = "attach-layout"
        /\ \E inj \in Inject, env \in TmuxEnvs :
             LET ex == Exec(OnSession(mux, r.sessionName, [ok |-> TRUE, mux |-> mux]), inj)
                 r1 == Logged(r, Op(AttachCmd(env # ""), -1, "", 0, env, ex.ok))
             IN  Step(p,
                      IF r.path = "fresh"
                      THEN [r1 EXCEPT !.pc = "done", !.result = Returned(AttachErr(ex.ok))]
                      ELSE IF ex.ok THEN [r1 EXCEPT !.pc = "attach"]
                      ELSE Abort(r1, AttachErr(FALSE)),
                      ex)

\* tmux.go 163: the session existed; attachSession's result is the call's
Attach(p) ==
    LET r == run[p]
    IN  /\ r.pc = "attach"
        /\ \E inj \in Inject, env \in TmuxEnvs :
             LET ex == Exec(OnSession(mux, r.sessionName, [ok |-> TRUE, mux |-> mux]), inj)
                 r1 == Logged(r, Op(AttachCmd(env # ""), -1, "", 0, env, ex.ok))
             IN  Step(p,
                      [r1 EXCEPT !.pc = "done", !.result = Returned(AttachErr(ex.ok))],
                      ex)

\* the call has returned (or the process has ended); the next one may start
Return(p) ==
    /\ run[p].pc = "done"
    /\ run' = [run EXCEPT ![p] = [IdleRun EXCEPT !.prevPath = run[p].path,
                                                 !.prevResult = run[p].result]]
    /\ calls' = calls + 1
    /\ UNCHANGED <<cfg, name, mux, fails, arith, conf, twin>>

Next ==
    \/ \E p \in DOMAIN run : Call(p)
    \/ \E p \in DOMAIN run : HasSession(p)
    \/ \E p \in DOMAIN run : ListWindows(p)
    \/ \E p \in DOMAIN run : KillWindow(p)
    \/ \E p \in DOMAIN run : NewWindow(p)
    \/ \E p \in DOMAIN run : NewSession(p)
    \/ \E p \in DOMAIN run : RenameWindow(p)
    \/ \E p \in DOMAIN run : MouseOn(p)
    \/ \E p \in DOMAIN run : SplitDesc(p)
    \/ \E p \in DOMAIN run : SetupDesc(p)
    \/ \E p \in DOMAIN run : SplitAgent(p)
    \/ \E p \in DOMAIN run : SetupAgent(p)
    \/ \E p \in DOMAIN run : VSplit(p)
    \/ \E p \in DOMAIN run : HSplit(p)
    \/ \E p \in DOMAIN run : SendPane(p)
    \/ \E p \in DOMAIN run : SendRow(p)
    \/ \E p \in DOMAIN run : SelectPane(p)
    \/ \E p \in DOMAIN run : AttachLayout(p)
    \/ \E p \in DOMAIN run : Attach(p)
    \/ \E p \in DOMAIN run : Return(p)

Spec == Init /\ [][Next]_vars

(***************************************************************************)
(* The layout arithmetic on its own: the two split loops of               *)
(* createPaneLayout with every command succeeding, and the shares of the   *)
(* split area the panes end up with.  Inputs are lists of height strings,  *)
(* lists of heights that sum to 100, and pane counts of a row.             *)
(***************************************************************************)
HeightStrings ==
    { <<>>, <<"4", "0", "%">>, <<"b", "o", "g", "u", "s">>,
      <<" ", "4", "0", "%", " ">>, <<"4", "0", "%", "%">>, <<"4", "0", " ", "%">>,
      <<"-", "5">>, <<"0">>, <<"+", "7", "%">>, <<"1", "0", "0", "%">> }

FineHeights == 1..99

CoarseHeights == {1, 2, 3, 5, 10, 20, 25, 33, 34, 50, 90, 96}

RECURSIVE SumSeq(_)
SumSeq(q) == IF q = <<>> THEN 0 ELSE Head(q) + SumSeq(Tail(q))

\* the lists of n positive heights that sum to 100
HeightLists(n) ==
    LET vals == IF n <= 3 THEN FineHeights ELSE CoarseHeights
    IN  {Append(c, 100 - SumSeq(c)) : c \in {d \in [1..(n - 1) -> vals] : SumSeq(d) < 100}}

HeightString(h) == Itoa(h) \o <<"%">>

RowsOf(hs) == [i \in 1..Len(hs) |-> LayoutRow(hs[i], "", NoCmd, <<>>)]

ArithInputs ==
    {[ArithIdle EXCEPT !.mode = "strings", !.step = "heights", !.rows = RowsOf(hs)] :
        hs \in UNION {[1..n -> HeightStrings] : n \in 1..(MaxArithRows - 1)}}
    \cup {[ArithIdle EXCEPT !.mode = "sum100", !.step = "heights",
                            !.rows = RowsOf([i \in 1..Len(h) |-> HeightString(h[i])])] :
             h \in UNION {HeightLists(n) : n \in 1..MaxArithRows}}
    \cup {[ArithIdle EXCEPT !.mode = "row", !.step = "hsplit", !.nPanes = k,
                            !.paneIdx = 1, !.paneIndex = FirstRowPane,
                            !.shares = <<ShareTotal(k)>>] :
             k \in 2..MaxArithPanes}

InitArith ==
    /\ cfg = [Layout |-> <<>>, Windows |-> <<>>]
    /\ name = <<"w">>
    /\ mux = NoSession
    /\ run = [p \in {1} |-> IdleRun]
    /\ calls = 0
    /\ fails = 0
    /\ arith \in ArithInputs
    /\ conf = ConfIdle
    /\ twin = TwinIdle

\* tmux.go 297-313: the heights and the head of the row loop
ArithHeights ==
    /\ arith.step = "heights"
    /\ arith' = [arith EXCEPT
                    !.heights = EffectiveHeights(arith.rows),
                    !.remainingPercent = 100,
                    !.paneIndex = FirstRowPane,
                    !.rowIdx = 1,
                    !.shares = IF arith.mode = "sum100"
                               THEN <<ShareTotal(Len(arith.rows))>> ELSE <<>>,
                    !.step = IF 1 < Len(arith.rows) THEN "vsplit" ELSE "done"]
    /\ UNCHANGED <<cfg, name, mux, run, calls, fails, conf, twin>>

\* tmux.go 313-336: one round of the row loop
ArithVSplit ==
    /\ arith.step = "vsplit"
    /\ arith' =
         IF arith.remainingPercent = 0 THEN [arith EXCEPT !.step = "panic"]
         ELSE LET splitPercent == VSplitPercent(arith.heights, arith.rowIdx,
                                                arith.remainingPercent)
              IN  [arith EXCEPT
                     !.ops = Append(@, [pane |-> arith.paneIndex, pct |-> splitPercent]),
                     !.shares = IF arith.mode = "sum100"
                                THEN MuxSplitShare(@, arith.paneIndex - FirstRowPane + 1,
                                                   splitPercent)
                                ELSE @,
                     !.remainingPercent =
                         NextRemainingPercent(arith.heights, arith.rowIdx, @),
                     !.paneIndex = @ + 1,
                     !.rowIdx = @ + 1,
                     !.step = IF arith.rowIdx + 1 < Len(arith.rows) THEN "vsplit"
                              ELSE "done"]
    /\ UNCHANGED <<cfg, name, mux, run, calls, fails, conf, twin>>

\* tmux.go 353-364: one horizontal split of a row of nPanes panes
ArithHSplit ==
    /\ arith.step = "hsplit"
    /\ LET hSplitPercent == HSplitPercent(arith.nPanes, arith.paneIdx)
       IN  arith' = [arith EXCEPT
                       !.ops = Append(@, [pane |-> arith.paneIndex, pct |-> hSplitPercent]),
                       !.shares = MuxSplitShare(@, 1, hSplitPercent),
                       !.paneIdx = @ + 1,
                       !.step = IF arith.paneIdx + 1 < arith.nPanes THEN "hsplit"
                                ELSE "done"]
    /\ UNCHANGED <<cfg, name, mux, run, calls, fails, conf, twin>>

NextArith == ArithHeights \/ ArithVSplit \/ ArithHSplit

SpecArith == InitArith /\ [][NextArith]_vars

(***************************************************************************)
(* The functions of the configuration and of the session name on their     *)
(* own: Config.GetLayout applied to a configuration, SanitizeSessionName   *)
(* (and its wrapper) applied to a name.                                    *)
(***************************************************************************)
MaxWindows == 3

MaxNameLen == 4

\* the deprecated windows tried: a window with a command, one with an empty
\* command, one with none
ConfWindowPool ==
    {TmuxWindow("a", NoCmd), TmuxWindow("b", "npm start"), TmuxWindow("", "top")}

ConfWindows == UNION {[1..k -> ConfWindowPool] : k \in 0..MaxWindows}

ConfConfigs == {[Layout |-> l, Windows |-> w] : l \in Layouts, w \in ConfWindows}

NameChars == {"a", ".", "-", "_"}

\* the names tried: all short names over NameChars, and those of the tests
\* (part_002 15-30)
ConfNames ==
    UNION {[1..k -> NameChars] : k \in 0..MaxNameLen}
    \cup {<<"a", ".", "b", ".", "c">>, <<"n", "o", "-", "d", "o", "t", "s">>,
          <<"m", "y", ".", "p", ".", "n", "-", "f">>}

MaxTodos == 3

\* config.go 145-148
TodoStatusPending == "pending"

TodoStatusDone == "done"

\* config.go 150-156 (the GitHub fields play no part here)
Todo(d, st, w) == [Description |-> d, Status |-> st, Worktree |-> w]

\* the todos tried: TestMarkTodoDone's two, one without worktree, each
\* pending or done
TodoPool ==
    {Todo(t[1], st, t[2]) :
        t \in {<<"Feature 1", "worktree-1">>, <<"Feature 2", "worktree-2">>,
                <<"Feature 3", "">>},
        st \in {TodoStatusPending, TodoStatusDone}}

TodoLists == UNION {[1..k -> TodoPool] : k \in 0..MaxTodos}

\* the worktrees asked for: two that todos may have, none, one no todo has
TodoWorktrees == {"", "worktree-1", "worktree-2", "worktree-3"}

\* a MarkTodoDone without its break: every todo of the worktree is marked
MarkTodoDoneAll(todos, worktree) ==
    [i \in 1..Len(todos) |->
        IF todos[i].Worktree = worktree
        THEN [todos[i] EXCEPT !.Status = TodoStatusDone]
        ELSE todos[i]]

\* config.go 259-266: the first todo of the worktree is marked done
MarkTodoDone(todos, worktree) ==
    LET hits == {i \in 1..Len(todos) : todos[i].Worktree = worktree}
    IN  IF hits = {} THEN todos
        ELSE LET first == CHOOSE i \in hits : \A j \in hits : i <= j
             IN  [todos EXCEPT ![first].Status = TodoStatusDone]

ConfInputs ==
    {[ConfIdle EXCEPT !.mode = "layout", !.given = c, !.cfg = c] : c \in ConfConfigs}
    \cup {[ConfIdle EXCEPT !.mode = "name", !.name = n] : n \in ConfNames}
    \cup {[ConfIdle EXCEPT !.mode = "todos", !.worktree = w, !.todosGiven = t, !.todos = t] :
             w \in TodoWorktrees, t \in TodoLists}

InitConfig ==
    /\ cfg = [Layout |-> <<>>, Windows |-> <<>>]
    /\ name = <<"w">>
    /\ mux = NoSession
    /\ run = [p \in {1} |-> IdleRun]
    /\ calls = 0
    /\ fails = 0
    /\ arith = ArithIdle
    /\ conf \in ConfInputs
    /\ twin = TwinIdle

\* config.go 280-307: GetLayout reads the configuration and assigns nothing
\* to it
ResolveLayout ==
    /\ conf.mode = "layout"
    /\ ~conf.done
    /\ conf' = [conf EXCEPT !.layout = GetLayout(conf.cfg), !.done = TRUE]
    /\ UNCHANGED <<cfg, name, mux, run, calls, fails, arith, twin>>

\* tmux.go 171-179: SanitizeSessionName, and the wrapper applied to its result
Sanitize ==
    /\ conf.mode = "name"
    /\ ~conf.done
    /\ conf' = [conf EXCEPT !.out = SanitizeSessionName(conf.name),
                            !.again = sanitizeSessionName(SanitizeSessionName(conf.name)),
                            !.done = TRUE]
    /\ UNCHANGED <<cfg, name, mux, run, calls, fails, arith, twin>>

\* config.go 259-266: Config.MarkTodoDone on the todos of the configuration
MarkDone ==
    /\ conf.mode = "todos"
    /\ ~conf.done
    /\ conf' = [conf EXCEPT !.todos = MarkTodoDone(conf.todos, conf.worktree),
                            !.done = TRUE]
    /\ UNCHANGED <<cfg, name, mux, run, calls, fails, arith, twin>>

NextConfig == ResolveLayout \/ Sanitize \/ MarkDone

SpecConfig == InitConfig /\ [][NextConfig]_vars

(***************************************************************************)
(* createPaneLayout from the heights on (tmux.go 297-397), every command   *)
(* succeeding, run side by side on two layouts that have the same rows,    *)
(* names, heights and commands and whose sub-panes have other widths.      *)
(***************************************************************************)
\* the width hints tried (config.go 163-167: any string)
WidthPool == << <<>>, <<"5", "0", "%">>, <<"3", "0", "%">>, <<"w", "i", "d", "e">> >>

\* the ways widths are given to the sub-panes of a layout: as the layout
\* has them, none, the same hint for all, hints that differ pane by pane
WidthRules == {"given", "none", "same", "mixed"}

WidthOf(rule, pane, i, j) ==
    IF rule = "given" THEN pane.Width
    ELSE IF rule = "none" THEN WidthPool[1]
    ELSE IF rule = "same" THEN WidthPool[3]
    ELSE WidthPool[((i + j) % Len(WidthPool)) + 1]

\* the layout with every sub-pane's width set by the rule, all else kept
WithWidths(layout, rule) ==
    [i \in 1..Len(layout) |->
        LayoutRow(layout[i].Height, layout[i].Name, layout[i].Command,
                  [j \in 1..Len(layout[i].Panes) |->
                      Pane(layout[i].Panes[j].Name,
                           WidthOf(rule, layout[i].Panes[j], i, j),
                           layout[i].Panes[j].Command)])]

TwinInputs ==
    {[on |-> TRUE,
      a  |-> [IdleBuild EXCEPT !.pc = "start", !.layout = WithWidths(l, ra)],
      b  |-> [IdleBuild EXCEPT !.pc = "start", !.layout = WithWidths(l, rb)]] :
        l \in Layouts \ {<<>>}, ra \in WidthRules, rb \in WidthRules}

InitWidths ==
    /\ cfg = [Layout |-> <<>>, Windows |-> <<>>]
    /\ name = <<"w">>
    /\ mux = NoSession
    /\ run = [p \in {1} |-> IdleRun]
    /\ calls = 0
    /\ fails = 0
    /\ arith = ArithIdle
    /\ conf = ConfIdle
    /\ twin \in TwinInputs

BuildOver == {"off", "done", "panic"}

\* the next command of createPaneLayout and the locals after it, when the
\* command succeeds
BuildStep(b) ==
    CASE b.pc = "start" ->
           \* tmux.go 297-313: the heights and the head of the row loop
           LET b1 == [b EXCEPT !.heights = EffectiveHeights(b.layout),
                               !.remainingPercent = 100]
           IN  IF 1 < Len(b.layout)
               THEN [b1 EXCEPT !.pc = "vsplit", !.rowIdx = 1, !.paneIndex = FirstRowPane]
               ELSE At(b1, SeekRow(b.layout, 0, FirstRowPane))
      [] b.pc = "vsplit" ->
           \* tmux.go 313-336
           IF b.remainingPercent = 0 THEN [b EXCEPT !.pc = "panic"]
           ELSE LET splitPercent == VSplitPercent(b.heights, b.rowIdx, b.remainingPercent)
                    b1 == Logged(b, Op("split-window", b.paneIndex, "-v", splitPercent, "", TRUE))
                    b2 == [b1 EXCEPT !.remainingPercent =
                                        NextRemainingPercent(b.heights, b.rowIdx, @),
                                     !.paneIndex = @ + 1,
                                     !.rowIdx = @ + 1]
                IN  IF b2.rowIdx < Len(b.layout) THEN b2
                    ELSE At(b2, SeekRow(b.layout, 0, FirstRowPane))
      [] b.pc = "hsplit" ->
           \* tmux.go 353-364
           LET row == b.layout[b.rowIdx + 1]
               hSplitPercent == RowHSplitPercent(row, b.paneIdx)
               b1 == Logged(b, Op("split-window", b.rowStartPane, "-h", hSplitPercent, "", TRUE))
           IN  IF b.paneIdx + 1 < Len(row.Panes)
               THEN [b1 EXCEPT !.paneIdx = @ + 1]
               ELSE At(b1, SeekSend(b.layout, b.rowIdx, 0, b.rowStartPane))
      [] b.pc = "send-pane" ->
           \* tmux.go 367-375
           LET pane == b.layout[b.rowIdx + 1].Panes[b.paneIdx + 1]
               b1 == Logged(b, Op("send-keys", b.rowStartPane + b.paneIdx, "", 0,
                                  pane.Command, TRUE))
           IN  At(b1, SeekSend(b.layout, b.rowIdx, b.paneIdx + 1, b.rowStartPane))
      [] b.pc = "send-row" ->
           \* tmux.go 380-389
           LET row == b.layout[b.rowIdx + 1]
               b1 == Logged(b, Op("send-keys", b.paneIndex, "", 0, row.Command, TRUE))
           IN  At(b1, SeekRow(b.layout, b.rowIdx + 1, b.paneIndex + 1))
      [] b.pc = "select-pane" ->
           \* tmux.go 394-397
           [Logged(b, Op("select-pane", AgentPane, "", 0, "", TRUE)) EXCEPT !.pc = "done"]
      [] OTHER -> b

\* both builds issue their next command
TwinStep ==
    /\ twin.on
    /\ twin.a.pc \notin BuildOver \/ twin.b.pc \notin BuildOver
    /\ twin' = [twin EXCEPT !.a = BuildStep(@), !.b = BuildStep(@)]
    /\ UNCHANGED <<cfg, name, mux, run, calls, fails, arith, conf>>

NextWidths == TwinStep

SpecWidths == InitWidths /\ [][NextWidths]_vars

(***************************************************************************)
(* Two calls of CreateOrAttachSession for the same name at the same time   *)
(* (two lfg processes): nothing in tmux.go 150-248 takes a lock, so their  *)
(* commands reach the multiplexer in any order, one at a time.  No command *)
(* fails for an outside reason here: what fails, fails by what the other   *)
(* call did.  The processes start their calls before either has returned.  *)
(***************************************************************************)
MaxRaceRows == 2

RaceProcs == {1, 2}

\* the layouts raced on: rows among the first MaxRaceRows of the order that
\* starts with the two-pane row and the row with a command of its own
RaceOrder == <<2, 1, 3, 4>>

RaceConfigs ==
    {[Layout |-> Pick(RaceOrder, I), Windows |-> <<>>] :
        I \in SUBSET (1..MaxRaceRows) \ {{}}}

InitRace ==
    /\ cfg \in RaceConfigs
    /\ name \in Names
    /\ mux \in Sessions(name)
    /\ run = [p \in RaceProcs |-> IdleRun]
    /\ calls = MaxCalls - 1
    /\ fails = MaxFail
    /\ arith = ArithIdle
    /\ conf = ConfIdle
    /\ twin = TwinIdle

SpecRace == InitRace /\ [][Next]_vars

(***************************************************************************)
(* Properties.  What a call did is read off its log.                       *)
(***************************************************************************)
IsSplit(op) == op.cmd = "split-window"

IsVSplit(op) == op.cmd = "split-window" /\ op.flag = "-v"

IsHSplit(op) == op.cmd = "split-window" /\ op.flag = "-h"

IsAttach(op) == op.cmd \in {"attach-session", "switch-client"}

IsSelect(op) == op.cmd = "select-pane"

Issued(r, cmds) == \E i \in 1..Len(r.log) : r.log[i].cmd \in cmds

\* the vertical splits of the row loop: all but the two of the fixed prefix
RowSplits(r) ==
    LET v == SelectSeq(r.log, IsVSplit)
    IN  IF Len(v) <= 2 THEN <<>> ELSE SubSeq(v, 3, Len(v))

\* the build ran to its end: the agent pane was selected
BuildCompleted(r) == \E i \in 1..Len(r.log) : IsSelect(r.log[i])

\* h[a] + ... + h[b], rows numbered from 0
RECURSIVE SumRows(_, _, _)
SumRows(h, a, b) == IF a > b THEN 0 ELSE h[a + 1] + SumRows(h, a + 1, b)

\* C1: a call that finds the session and, in its window list, the marker
\* window issues has-session, list-windows and the attach step and nothing
\* else; a call that follows a successful call on a fresh session issues no
\* split and creates nothing.
C1_MarkerFoundOnlyAttaches ==
    \A p \in DOMAIN run :
        LET r == run[p]
            creating == {"new-session", "new-window", "kill-window", "split-window",
                         "send-keys", "rename-window", "select-pane"}
        IN  /\ (\E i \in 1..Len(r.lines) : r.lines[i] = name) =>
                 /\ ~Issued(r, creating)
                 /\ r.pc = "done" =>
                      /\ Len(r.log) = 3
                      /\ r.log[1].cmd = "has-session"
                      /\ r.log[2].cmd = "list-windows"
                      /\ IsAttach(r.log[3])
            /\ (r.prevPath = "fresh" /\ r.prevResult = Returned(Nil)) =>
                 /\ ~Issued(r, creating)
                 /\ (r.pc = "done" /\ r.log # <<>>) => IsAttach(r.log[Len(r.log)])

\* C1 witness: the second call, after a successful call on a fresh session,
\* has found the marker window and has attached
C1_Witness ==
    \E p \in DOMAIN run :
        /\ run[p].pc = "done"
        /\ run[p].prevPath = "fresh"
        /\ run[p].prevResult = Returned(Nil)
        /\ \E i \in 1..Len(run[p].lines) : run[p].lines[i] = name
        /\ Len(run[p].log) = 3
        /\ IsAttach(run[p].log[3])
        /\ run[p].log[3].ok

\* Go's quotient of a by a nonzero b, written without GoDiv: the quotient of
\* the magnitudes, negative when the signs differ
Quot(a, b) ==
    LET ma == IF a < 0 THEN 0 - a ELSE a
        mb == IF b < 0 THEN 0 - b ELSE b
    IN  IF (a < 0) = (b < 0) THEN ma \div mb ELSE 0 - (ma \div mb)

\* C2 as stated: split i targets pane 2 + (i - 1) and carries
\* floor((h[i] + ... + h[N-1]) * 100 / (100 - (h[0] + ... + h[i-1]))).
C2_Original ==
    \A p \in DOMAIN run :
        LET r == run[p]
            v == RowSplits(r)
            h == r.heights
        IN  \A i \in 1..Len(v) :
                (100 - SumRows(h, 0, i - 1) > 0) =>
                    /\ v[i].pane = 2 + (i - 1)
                    /\ v[i].pct = (SumRows(h, i, Len(h) - 1) * 100)
                                      \div (100 - SumRows(h, 0, i - 1))

\* C2 amended: a build that runs to its end has issued exactly N - 1 row
\* splits, in the order i = 1..N-1; split i targets pane 2 + (i - 1) and
\* carries (h[i] + ... + h[N-1]) * 100 / (100 - (h[0] + ... + h[i-2])), the
\* divisor being what is left after the rows above row i - 1 (100 for i = 1)
\* and the quotient Go's, truncated toward zero; the divisor is not zero
\* whenever split i is issued.  For heights [50, 30, 20] the two splits carry
\* 50 and then 40.
C2_RowSplitPercent ==
    \A p \in DOMAIN run :
        LET r == run[p]
            v == RowSplits(r)
            h == r.heights
        IN  /\ Len(v) <= Len(r.layout) - 1 \/ Len(v) = 0
            /\ BuildCompleted(r) => Len(v) = Len(r.layout) - 1
            /\ \A i \in 1..Len(v) :
                  /\ v[i].pane = 2 + (i - 1)
                  /\ 100 - SumRows(h, 0, i - 2) # 0
                  /\ v[i].pct = Quot(SumRows(h, i, Len(h) - 1) * 100,
                                     100 - SumRows(h, 0, i - 2))
                  /\ i < Len(v) => v[i].ok
            /\ (BuildCompleted(r) /\ h = <<50, 30, 20>>) =>
                  (v[1].pct = 50 /\ v[2].pct = 40)

\* C2 witness: a finished build of three rows of heights 50, 30, 20
C2_Witness ==
    \E p \in DOMAIN run :
        /\ run[p].pc = "done"
        /\ BuildCompleted(run[p])
        /\ run[p].heights = <<50, 30, 20>>
        /\ Len(RowSplits(run[p])) = 2
        /\ RowSplits(run[p])[2].pct = 40

(***************************************************************************)
(* Properties of the layout arithmetic (SpecArith).                        *)
(***************************************************************************)
Abs(x) == IF x < 0 THEN 0 - x ELSE x

\* one percentage point of the split area, in the units of arith.shares
SharePoint(n) == ShareTotal(n) \div 100

VerticalDone == arith.mode = "sum100" /\ arith.step = "done" /\ Len(arith.rows) >= 2

\* C3 as stated: for heights that sum to 100, each row's share of the work
\* area after the N - 1 splits is within 1 percentage point of its height.
C3_Original ==
    VerticalDone =>
        \A i \in 1..Len(arith.shares) :
            Abs(arith.shares[i] - arith.heights[i] * SharePoint(Len(arith.rows)))
                <= SharePoint(Len(arith.rows))

\* C3 amended: rows 0, 1 and 2 end up less than 1 percentage point from
\* their heights, row i >= 3 less than i - 1 points from its height; the
\* rounding of each split is passed on to the rows below it.  With up to
\* three rows every row is within 1 point.
C3_RowSharesWithinRounding ==
    VerticalDone =>
        /\ Len(arith.shares) = Len(arith.rows)
        /\ Len(arith.ops) = Len(arith.rows) - 1
        /\ SumSeq(arith.shares) = ShareTotal(Len(arith.rows))
        /\ \A i \in 1..Len(arith.shares) :
              Abs(arith.shares[i] - arith.heights[i] * SharePoint(Len(arith.rows)))
                  < (IF i - 1 >= 3 THEN i - 2 ELSE 1) * SharePoint(Len(arith.rows))

\* C3 witness: four rows 1, 1, 1, 97 have been split; the last row is more
\* than 1 point short of 97
C3_Witness ==
    /\ VerticalDone
    /\ arith.heights = <<1, 1, 1, 97>>
    /\ arith.heights[4] * SharePoint(4) - arith.shares[4] > SharePoint(4)

\* what each height string of the pool says: its integer, 0 for none
HeightMeaning(s) ==
    CASE s = <<>> -> 0
      [] s = <<"4", "0", "%">> -> 40
      [] s = <<"b", "o", "g", "u", "s">> -> 0
      [] s = <<" ", "4", "0", "%", " ">> -> 40
      [] s = <<"4", "0", "%", "%">> -> 0
      [] s = <<"4", "0", " ", "%">> -> 0
      [] s = <<"-", "5">> -> 0 - 5
      [] s = <<"0">> -> 0
      [] s = <<"+", "7", "%">> -> 7
      [] s = <<"1", "0", "0", "%">> -> 100

HeightsComputed == arith.mode = "strings" /\ arith.step \in {"vsplit", "done", "panic"}

\* C4: before the row loop runs, a row whose height string holds no integer
\* or one that is not positive has the height floor(100 / N), and a row whose
\* string holds a positive integer has that integer; ["", "40%", "bogus"]
\* gives [33, 40, 33].
C4_EffectiveHeights ==
    HeightsComputed =>
        /\ Len(arith.heights) = Len(arith.rows)
        /\ \A i \in 1..Len(arith.rows) :
              arith.heights[i] =
                  IF HeightMeaning(arith.rows[i].Height) > 0
                  THEN HeightMeaning(arith.rows[i].Height)
                  ELSE 100 \div Len(arith.rows)
        /\ (arith.rows = RowsOf(<< <<>>, <<"4", "0", "%">>, <<"b", "o", "g", "u", "s">> >>))
              => arith.heights = <<33, 40, 33>>

\* C4 witness: the heights of ["", "40%", "bogus"] have been computed
C4_Witness ==
    /\ HeightsComputed
    /\ arith.rows = RowsOf(<< <<>>, <<"4", "0", "%">>, <<"b", "o", "g", "u", "s">> >>)
    /\ arith.heights = <<33, 40, 33>>

\* C7: after the k - 1 horizontal splits of a row of k panes, every pane's
\* share of the row's width is within 1 percentage point of 100 / k.
C7_EqualShares ==
    (arith.mode = "row" /\ arith.step = "done") =>
        \A i \in 1..Len(arith.shares) :
            Abs(arith.nPanes * arith.shares[i] - ShareTotal(arith.nPanes))
                <= arith.nPanes * SharePoint(arith.nPanes)

(***************************************************************************)
(* Properties of the horizontal pass, the fixed prefix and failures.       *)
(***************************************************************************)
\* the pane count of a row: a row without sub-panes is one pane
RowPanes(row) == IF Len(row.Panes) > 0 THEN Len(row.Panes) ELSE 1

\* the index the code counts for the first pane of row rowIdx
RECURSIVE RowStart(_, _)
RowStart(layout, rowIdx) ==
    IF rowIdx = 0 THEN 2
    ELSE RowStart(layout, rowIdx - 1) + RowPanes(layout[rowIdx])

Target(op) == [pane |-> op.pane, pct |-> op.pct]

\* the horizontal splits C5 asks of rows rowIdx, rowIdx + 1, ...
RECURSIVE ExpectedHSplits(_, _)
ExpectedHSplits(layout, rowIdx) ==
    IF rowIdx >= Len(layout) THEN <<>>
    ELSE LET k == Len(layout[rowIdx + 1].Panes)
         IN  [j \in 1..(IF k >= 2 THEN k - 1 ELSE 0) |->
                 [pane |-> RowStart(layout, rowIdx),
                  pct  |-> (100 * (k - j)) \div (k - j + 1)]]
             \o ExpectedHSplits(layout, rowIdx + 1)

HSplits(r) == SelectSeq(r.log, IsHSplit)

\* C5: the horizontal splits of a build are, row by row, k - 1 splits for a
\* row of k >= 2 panes and none for any other row; each targets the first
\* pane index of its row, and the j-th of a row carries
\* floor(100 * (k - j) / (k - j + 1)).
C5_HorizontalSplits ==
    \A p \in DOMAIN run :
        LET r == run[p]
            h == HSplits(r)
            e == ExpectedHSplits(r.layout, 0)
        IN  /\ Len(h) <= Len(e)
            /\ \A i \in 1..Len(h) :
                  /\ Target(h[i]) = e[i]
                  /\ i < Len(h) => h[i].ok
            /\ BuildCompleted(r) => Len(h) = Len(e)

\* C5 witness: a finished build with a row of two panes and a row of four
C5_Witness ==
    \E p \in DOMAIN run :
        /\ run[p].pc = "done"
        /\ BuildCompleted(run[p])
        /\ \E a, b \in 1..Len(run[p].layout) :
              Len(run[p].layout[a].Panes) = 2 /\ Len(run[p].layout[b].Panes) = 4
        /\ Len(HSplits(run[p])) = 4

\* the percentages of the horizontal splits of row rowIdx
RowHSplitPercents(r, rowIdx) ==
    LET InRow(op) == IsHSplit(op) /\ op.pane = RowStart(r.layout, rowIdx)
        h == SelectSeq(r.log, InRow)
    IN  [i \in 1..Len(h) |-> h[i].pct]

FourPaneRows(r) == {i \in 1..Len(r.layout) : Len(r.layout[i].Panes) = 4}

\* C6 as stated: the three horizontal splits of a row of four panes carry
\* 75, 67, 50.
C6_Original ==
    \A p \in DOMAIN run :
        BuildCompleted(run[p]) =>
            \A i \in FourPaneRows(run[p]) :
                RowHSplitPercents(run[p], i - 1) = <<75, 67, 50>>

\* C6 amended: the three horizontal splits of a row of four panes carry
\* 75, 66, 50 (100 * 2 / 3 in integer division is 66).
C6_FourPanePercents ==
    \A p \in DOMAIN run :
        BuildCompleted(run[p]) =>
            \A i \in FourPaneRows(run[p]) :
                RowHSplitPercents(run[p], i - 1) = <<75, 66, 50>>

\* C6 witness: a finished build whose layout has a row of four panes
C6_Witness ==
    \E p \in DOMAIN run :
        /\ run[p].pc = "done"
        /\ BuildCompleted(run[p])
        /\ FourPaneRows(run[p]) # {}
        /\ run[p].result = Returned(Nil)

Splits(r) == SelectSeq(r.log, IsSplit)

\* how many split-window commands are among the first i of the log
SplitsUpTo(r, i) == Len(SelectSeq(SubSeq(r.log, 1, i), IsSplit))

IsListed(op) ==
    \/ op.cmd \in {"new-session", "split-window", "select-pane"}
    \/ IsAttach(op)
    \/ op.cmd = "send-keys" /\ op.pane >= 2

Listed(op) ==
    [cmd  |-> IF IsAttach(op) THEN "attach" ELSE op.cmd,
     pane |-> op.pane,
     pct  |-> op.pct,
     keys |-> IF op.cmd = "send-keys" THEN op.arg ELSE ""]

ListedOps(r) ==
    LET l == SelectSeq(r.log, IsListed)
    IN  [i \in 1..Len(l) |-> Listed(l[i])]

SingleRowLayout == <<LayoutRow(<<"1", "0", "0", "%">>, "server", "npm start", <<>>)>>

\* C9: for the layout of one single-pane row (height "100%", command
\* "npm start") and no session, a call that gets to attach has issued, in this
\* order: new-session, the split with 95, the split of pane 1 with 55, no other
\* split, "npm start" to pane 2, the selection of pane 1, attach.
C9_SingleRowScenario ==
    \A p \in DOMAIN run :
        LET r == run[p]
        IN  (/\ r.path = "fresh"
             /\ r.layout = SingleRowLayout
             /\ \E i \in 1..Len(r.log) : IsAttach(r.log[i])) =>
                /\ ListedOps(r) =
                     << [cmd |-> "new-session", pane |-> -1, pct |-> 0, keys |-> ""],
                        [cmd |-> "split-window", pane |-> -1, pct |-> 95, keys |-> ""],
                        [cmd |-> "split-window", pane |-> 1, pct |-> 55, keys |-> ""],
                        [cmd |-> "send-keys", pane |-> 2, pct |-> 0, keys |-> "npm start"],
                        [cmd |-> "select-pane", pane |-> 1, pct |-> 0, keys |-> ""],
                        [cmd |-> "attach", pane |-> -1, pct |-> 0, keys |-> ""] >>
                /\ r.pc = "done"
                /\ IsAttach(r.log[Len(r.log)])

\* C9 witness: that call has returned, and nothing failed
C9_Witness ==
    \E p \in DOMAIN run :
        /\ run[p].pc = "done"
        /\ run[p].path = "fresh"
        /\ run[p].layout = SingleRowLayout
        /\ run[p].result = Returned(Nil)
        /\ \A i \in 2..Len(run[p].log) : run[p].log[i].ok
        /\ Len(run[p].log) = 11

\* a structural command (session creation or a split) failed at place i
StructuralFailure(r, i) ==
    /\ i \in 1..Len(r.log)
    /\ r.log[i].cmd \in {"new-session", "split-window"}
    /\ ~r.log[i].ok

\* the error e names the step that failed at place i of the log
Identifies(e, r, i) ==
    LET op == r.log[i]
        n  == SplitsUpTo(r, i)
        SameRow(o) == IsHSplit(o) /\ o.pane = op.pane
    IN  IF op.cmd = "new-session" THEN e = Err("failed to create session", -1, -1)
        ELSE IF n = 1 THEN e = Err("failed to create description pane", -1, -1)
        ELSE IF n = 2 THEN e = Err("failed to create agent pane", -1, -1)
        ELSE IF op.flag = "-v" THEN e = Err("failed to create row", n - 2, -1)
        ELSE /\ e.step = "failed to create horizontal pane"
             /\ e.row \in 0..(Len(r.layout) - 1)
             /\ op.pane = RowStart(r.layout, e.row)
             /\ Len(r.layout[e.row + 1].Panes) >= 2
             /\ e.pane = Len(SelectSeq(SubSeq(r.log, 1, i), SameRow))

\* C10 as stated: after a structural failure the call returns an error that
\* names the failed step and issues nothing more, attach included, on the
\* fresh path and on the rebuild path.
C10_Original ==
    \A p \in DOMAIN run :
        LET r == run[p]
        IN  \A i \in 1..Len(r.log) :
                StructuralFailure(r, i) =>
                    /\ i = Len(r.log)
                    /\ r.pc = "done"
                    /\ r.result.state = "returned"
                    /\ Identifies(r.result.err, r, i)

\* C10 amended: after a structural failure no split, command injection or
\* pane selection follows.  When the session was created by this call, the
\* call returns an error naming the failed step and does not attach.  When
\* the pane tree is rebuilt for an existing session, the error naming the
\* failed step is printed as a warning, the attach step still runs, once, and
\* its result is the call's result.
C10_StructuralFailure ==
    \A p \in DOMAIN run :
        LET r == run[p]
        IN  \A i \in 1..Len(r.log) :
                StructuralFailure(r, i) =>
                    IF r.path = "fresh"
                    THEN /\ i = Len(r.log)
                         /\ r.pc = "done"
                         /\ r.result.state = "returned"
                         /\ Identifies(r.result.err, r, i)
                    ELSE /\ r.path = "rebuild"
                         /\ r.log[i].cmd = "split-window"
                         /\ r.warnings # <<>>
                         /\ r.warnings[Len(r.warnings)].what = "failed to ensure windows"
                         /\ Identifies(r.warnings[Len(r.warnings)].err, r, i)
                         /\ Len(r.log) <= i + 1
                         /\ IF r.pc = "done"
                            THEN /\ Len(r.log) = i + 1
                                 /\ IsAttach(r.log[i + 1])
                                 /\ r.result = Returned(AttachErr(r.log[i + 1].ok))
                            ELSE r.pc = "attach" /\ Len(r.log) = i

\* C10 witness: a rebuild whose row split failed has gone on to attach
C10_Witness ==
    \E p \in DOMAIN run :
        LET r == run[p]
        IN  /\ r.pc = "done"
            /\ r.path = "rebuild"
            /\ Len(r.log) >= 2
            /\ StructuralFailure(r, Len(r.log) - 1)
            /\ r.log[Len(r.log) - 1].pane >= 2
            /\ IsAttach(r.log[Len(r.log)])
            /\ r.result = Returned(Nil)

(***************************************************************************)
(* Properties of the failures that are recovered from.                     *)
(***************************************************************************)
\* a command of the layout was sent to its pane and that failed
IsLayoutSend(op) == op.cmd = "send-keys" /\ op.pane >= 2

SendFailed(r, i) == IsLayoutSend(r.log[i]) /\ ~r.log[i].ok

SecondPassOp(cmd, pane, pct, keys) == [cmd |-> cmd, pane |-> pane, pct |-> pct, keys |-> keys]

\* the commands of the panes of one row, the first pane of the row being at
\* index start
RowSends(row, start) ==
    LET F[j \in 0..Len(row.Panes)] ==
            IF j = 0 THEN <<>>
            ELSE IF row.Panes[j].Command # NoCmd
                 THEN Append(F[j - 1],
                             SecondPassOp("send-keys", start + j - 1, 0, row.Panes[j].Command))
                 ELSE F[j - 1]
    IN  F[Len(row.Panes)]

\* what the second pass issues when nothing aborts it: row by row, the
\* horizontal splits of the row and then the commands of its panes
RECURSIVE ExpectedSecondPass(_, _)
ExpectedSecondPass(layout, rowIdx) ==
    IF rowIdx >= Len(layout) THEN <<>>
    ELSE LET row   == layout[rowIdx + 1]
             k     == Len(row.Panes)
             start == RowStart(layout, rowIdx)
             here  == IF k = 0
                      THEN IF row.Command # NoCmd
                           THEN <<SecondPassOp("send-keys", start, 0, row.Command)>>
                           ELSE <<>>
                      ELSE [j \in 1..(k - 1) |->
                               SecondPassOp("split-window", start,
                                            (100 * (k - j)) \div (k - j + 1), "")]
                           \o RowSends(row, start)
         IN  here \o ExpectedSecondPass(layout, rowIdx + 1)

IsSecondPass(op) == IsHSplit(op) \/ IsLayoutSend(op)

SecondPass(r) ==
    LET l == SelectSeq(r.log, IsSecondPass)
    IN  [i \in 1..Len(l) |-> SecondPassOp(l[i].cmd, l[i].pane, l[i].pct, l[i].arg)]

\* C11: a command of the layout that could not be sent does not end the
\* build: the call goes on with the next split or command, a warning is
\* printed, and unless a later split fails the call issues every horizontal
\* split and every command of the layout, selects the agent pane, attaches,
\* and returns what the attach step returned.
C11_SendFailureNotFatal ==
    \A p \in DOMAIN run :
        LET r == run[p]
            s == SecondPass(r)
            e == ExpectedSecondPass(r.layout, 0)
        IN  /\ Len(s) <= Len(e)
            /\ \A i \in 1..Len(s) : s[i] = e[i]
            /\ \A i \in 1..Len(r.log) :
                  SendFailed(r, i) =>
                     /\ \E w \in 1..Len(r.warnings) :
                            r.warnings[w].what = "failed to run command in pane"
                     /\ i = Len(r.log) =>
                            r.pc \in {"hsplit", "send-pane", "send-row", "select-pane"}
                     /\ (/\ r.pc = "done"
                         /\ \A j \in (i + 1)..Len(r.log) : IsHSplit(r.log[j]) => r.log[j].ok) =>
                            /\ s = e
                            /\ BuildCompleted(r)
                            /\ IsAttach(r.log[Len(r.log)])
                            /\ r.result = Returned(AttachErr(r.log[Len(r.log)].ok))

\* C11 witness: the command of the first pane of a row could not be sent;
\* the call has gone on to split a later row, to send a later command, and
\* has attached
C11_Witness ==
    \E p \in DOMAIN run :
        LET r == run[p]
        IN  /\ r.pc = "done"
            /\ r.result = Returned(Nil)
            /\ \E i \in 1..Len(r.log) :
                  /\ SendFailed(r, i)
                  /\ \E j \in (i + 1)..Len(r.log) : IsHSplit(r.log[j])
                  /\ \E j \in (i + 1)..Len(r.log) : IsLayoutSend(r.log[j]) /\ r.log[j].ok
                  /\ \E j \in (i + 1)..Len(r.log) : IsSelect(r.log[j])

\* the set-up steps C12 calls cosmetic: the window's name, mouse mode, the
\* viewer of the description pane, the selection of the agent pane
IsRename(op) == op.cmd = "rename-window"

IsWarnedSetup(op) ==
    \/ op.cmd = "set-option"
    \/ op.cmd = "send-keys" /\ op.pane = 0
    \/ op.cmd = "select-pane"

IsCosmetic(op) == IsRename(op) \/ IsWarnedSetup(op)

\* where the call stands right after the set-up step op, when it goes on
NextAfter(op) ==
    IF op.cmd = "rename-window" THEN "mouse"
    ELSE IF op.cmd = "set-option" THEN "split-desc"
    ELSE IF op.cmd = "send-keys" THEN "split-agent"
    ELSE "attach-layout"

ConfigError == Err("no layout defined in config", -1, -1)

\* the call went on after the step at place i of its log (or ended for want
\* of a layout, which the step has no part in)
WentOn(r, i) ==
    i = Len(r.log) =>
        \/ r.pc = NextAfter(r.log[i])
        \/ /\ r.log[i].cmd = "set-option"
           /\ GetLayout(cfg) = <<>>
           /\ r.result = Returned(ConfigError)

\* the build ran through: no split failed, the process did not end in the
\* row loop, and there was a layout
RanThrough(r) ==
    /\ r.pc = "done"
    /\ r.result.state = "returned"
    /\ r.layout # <<>>
    /\ \A j \in 1..Len(r.log) : IsSplit(r.log[j]) => r.log[j].ok

\* C12 as stated: after a failed cosmetic step, the renaming of the window
\* included, the call goes on with the next step.
C12_Original ==
    \A p \in DOMAIN run :
        \A i \in 1..Len(run[p].log) :
            (IsCosmetic(run[p].log[i]) /\ ~run[p].log[i].ok) => WentOn(run[p], i)

\* C12 amended: a failure to enable mouse mode, to launch the viewer in the
\* description pane or to select the agent pane is printed as a warning and
\* the call goes on: unless a split fails it issues the whole build and
\* attaches.  A failure to rename the window ends the call: it returns the
\* error "failed to rename window" and issues nothing more, no attach either.
C12_CosmeticFailures ==
    \A p \in DOMAIN run :
        LET r == run[p]
        IN  \A i \in 1..Len(r.log) :
                /\ (IsWarnedSetup(r.log[i]) /\ ~r.log[i].ok) =>
                      /\ WentOn(r, i)
                      /\ r.warnings # <<>>
                      /\ RanThrough(r) =>
                            /\ Len(RowSplits(r)) = Len(r.layout) - 1
                            /\ SecondPass(r) = ExpectedSecondPass(r.layout, 0)
                            /\ BuildCompleted(r)
                            /\ IsAttach(r.log[Len(r.log)])
                            /\ r.result = Returned(AttachErr(r.log[Len(r.log)].ok))
                /\ (IsRename(r.log[i]) /\ ~r.log[i].ok) =>
                      /\ i = Len(r.log)
                      /\ r.pc = "done"
                      /\ r.result = Returned(Err("failed to rename window", -1, -1))

\* C12 witness: mouse mode could not be enabled; the call has built a layout
\* of several rows and has attached
C12_Witness ==
    \E p \in DOMAIN run :
        LET r == run[p]
        IN  /\ RanThrough(r)
            /\ r.result = Returned(Nil)
            /\ Len(r.layout) >= 2
            /\ \E i \in 1..Len(r.log) : r.log[i].cmd = "set-option" /\ ~r.log[i].ok
            /\ IsAttach(r.log[Len(r.log)])

(***************************************************************************)
(* Properties of reconciliation (ensureWindows) and of the attach step.    *)
(***************************************************************************)
IsKill(op) == op.cmd = "kill-window"

IsNewWindow(op) == op.cmd = "new-window"

HasName(line) == line # <<>>

\* the names the kill loop has asked the multiplexer to kill, in order
Killed(r) ==
    LET k == SelectSeq(r.log, IsKill)
    IN  [i \in 1..Len(k) |-> k[i].arg]

\* the splits of a build, as [pane, flag, pct]
SplitOps(r) ==
    LET l == Splits(r)
    IN  [i \in 1..Len(l) |-> [pane |-> l[i].pane, flag |-> l[i].flag, pct |-> l[i].pct]]

\* the row splits a build issues when nothing fails, split rowIdx first
RECURSIVE FreshRowSplits(_, _)
FreshRowSplits(h, rowIdx) ==
    IF rowIdx >= Len(h) THEN <<>>
    ELSE <<[pane |-> 2 + (rowIdx - 1), flag |-> "-v",
            pct  |-> Quot(SumRows(h, rowIdx, Len(h) - 1) * 100,
                          100 - SumRows(h, 0, rowIdx - 2))]>>
         \o FreshRowSplits(h, rowIdx + 1)

\* the vertical splits a fresh session gets: the two of the prefix, then the
\* row splits
FreshVSplits(h) ==
    <<[pane |-> -1, flag |-> "-v", pct |-> 95], [pane |-> 1, flag |-> "-v", pct |-> 55]>>
    \o FreshRowSplits(h, 1)

IsVSplitOp(o) == o.flag = "-v"

\* C13: on the rebuild path every listed window that has a name is killed,
\* in the order listed, whether or not a kill fails; then the marker window
\* is created, and when nothing fails for an outside reason the call builds
\* the pane tree a fresh session gets: the same vertical splits, the same
\* horizontal splits and commands, the selection of the agent pane.
C13_RebuildBuildsTree ==
    \A p \in DOMAIN run :
        LET r == run[p]
        IN  r.path = "rebuild" =>
              /\ Len(Killed(r)) <= Len(SelectSeq(r.lines, HasName))
              /\ Killed(r) = SubSeq(SelectSeq(r.lines, HasName), 1, Len(Killed(r)))
              /\ r.pc \notin {"list-windows", "kill-window"} =>
                    Killed(r) = SelectSeq(r.lines, HasName)
              /\ \A i \in 1..Len(r.log) :
                    IsNewWindow(r.log[i]) => r.log[i].arg = name /\ ~Issued(r, {"new-session"})
              /\ (r.pc = "done" /\ fails = 0 /\ r.result.state = "returned"
                                /\ GetLayout(cfg) # <<>>) =>
                    /\ \E i \in 1..Len(r.log) : IsNewWindow(r.log[i]) /\ r.log[i].ok
                    /\ SelectSeq(SplitOps(r), IsVSplitOp)
                           = FreshVSplits(EffectiveHeights(GetLayout(cfg)))
                    /\ SecondPass(r) = ExpectedSecondPass(GetLayout(cfg), 0)
                    /\ BuildCompleted(r)

\* C14: every attach step issues one command, switch-client when TMUX is not
\* empty and attach-session when it is; a call that finds the marker window
\* or builds a fresh session issues one such command in all.
C14_AttachOrSwitch ==
    \A p \in DOMAIN run :
        LET r == run[p]
            a == SelectSeq(r.log, IsAttach)
        IN  /\ \A i \in 1..Len(a) :
                  /\ a[i].arg # "" => a[i].cmd = "switch-client"
                  /\ a[i].arg = "" => a[i].cmd = "attach-session"
            /\ r.path \in {"marker", "fresh"} => Len(a) <= 1
            /\ (r.path = "marker" /\ r.pc = "done") => Len(a) = 1

\* C14 witness: two calls in a row, the first attached from outside a client
\* with attach-session, the second from inside one with switch-client
C14_Witness ==
    \E p \in DOMAIN run :
        LET r == run[p]
        IN  /\ r.pc = "done"
            /\ r.prevResult = Returned(Nil)
            /\ r.result = Returned(Nil)
            /\ r.log[Len(r.log)].cmd = "switch-client"
            /\ r.log[Len(r.log)].arg # ""

(***************************************************************************)
(* Properties of Config.GetLayout and SanitizeSessionName (SpecConfig).    *)
(***************************************************************************)
\* floor(100 / n) followed by "%", written out for the window counts tried
ShareString(n) ==
    CASE n = 1 -> <<"1", "0", "0", "%">>
      [] n = 2 -> <<"5", "0", "%">>
      [] n = 3 -> <<"3", "3", "%">>
      [] n = 4 -> <<"2", "5", "%">>
      [] n = 5 -> <<"2", "0", "%">>
      [] OTHER -> <<>>

LayoutResolved == conf.mode = "layout" /\ conf.done

\* C15: with an empty layout and n > 0 windows GetLayout yields n rows in
\* the windows' order, row i with window i's name and command, no sub-panes
\* and the height floor(100 / n) followed by "%".
C15_LegacyConversion ==
    (LayoutResolved /\ conf.given.Layout = <<>> /\ Len(conf.given.Windows) > 0) =>
        LET w == conf.given.Windows
            l == conf.layout
        IN  /\ Len(l) = Len(w)
            /\ \A i \in 1..Len(w) :
                  /\ l[i].Name = w[i].Name
                  /\ l[i].Command = w[i].Command
                  /\ l[i].Panes = <<>>
                  /\ l[i].Height = ShareString(Len(w))

\* C15 witness: three windows have become three rows of height "33%"
C15_Witness ==
    /\ LayoutResolved
    /\ conf.given.Layout = <<>>
    /\ Len(conf.given.Windows) = 3
    /\ Len(conf.layout) = 3
    /\ \A i \in 1..3 : conf.layout[i].Height = <<"3", "3", "%">>
    /\ conf.layout[2].Command = "npm start"

\* C16: a layout that is not empty is returned as it is, with or without
\* windows beside it; with neither the result is empty; the configuration
\* is what it was before the call.
C16_LayoutWins ==
    LayoutResolved =>
        /\ conf.given.Layout # <<>> => conf.layout = conf.given.Layout
        /\ (conf.given.Layout = <<>> /\ conf.given.Windows = <<>>) => conf.layout = <<>>
        /\ conf.cfg = conf.given

\* C16 witness: a layout with a multi-pane row, beside two windows, has been
\* returned as it is
C16_Witness ==
    /\ LayoutResolved
    /\ Len(conf.given.Windows) = 2
    /\ Len(conf.given.Layout) >= 2
    /\ \E i \in 1..Len(conf.given.Layout) : Len(conf.given.Layout[i].Panes) >= 2
    /\ conf.layout = conf.given.Layout

Sanitized == conf.mode = "name" /\ conf.done

NoDot(str) == \A i \in 1..Len(str) : str[i] # "."

\* C17: SanitizeSessionName keeps the length, turns every "." into "_" and
\* keeps every other character; its result has no ".", a name without dots
\* comes back as it is, and sanitizing the result changes nothing.
C17_Sanitize ==
    Sanitized =>
        /\ Len(conf.out) = Len(conf.name)
        /\ \A i \in 1..Len(conf.name) :
              conf.out[i] = (IF conf.name[i] = "." THEN "_" ELSE conf.name[i])
        /\ NoDot(conf.out)
        /\ NoDot(conf.name) => conf.out = conf.name
        /\ conf.again = conf.out
        /\ conf.name = <<"a", ".", "b", ".", "c">> => conf.out = <<"a", "_", "b", "_", "c">>

\* C17 witness: "a.b.c" has become "a_b_c"
C17_Witness ==
    /\ Sanitized
    /\ conf.name = <<"a", ".", "b", ".", "c">>
    /\ conf.out = <<"a", "_", "b", "_", "c">>
    /\ conf.again = conf.out

(***************************************************************************)
(* C18: tmux not installed (tmux.go 150-153).                              *)
(***************************************************************************)
NotInstalledError == Err("tmux is not installed", -1, -1)

\* the call found no tmux binary (IsInstalled was false)
NotInstalled(r) == r.path = "none"

\* C18: when the tmux binary is not found, the call has returned the error
\* "tmux is not installed" at once and has issued no command at all: no
\* has-session, no new-session, no split-window, no attach; it has printed
\* no warning either.
C18_NotInstalledNoOps ==
    \A p \in DOMAIN run :
        NotInstalled(run[p]) =>
            /\ run[p].pc = "done"
            /\ run[p].result = Returned(NotInstalledError)
            /\ run[p].log = <<>>
            /\ run[p].warnings = <<>>

\* C18 witness: a call that found no binary has returned the error with an
\* empty log, beside a session that exists and would have been attached
C18_Witness ==
    /\ NotInstalled(run[1])
    /\ run[1].pc = "done"
    /\ run[1].result = Returned(NotInstalledError)
    /\ run[1].log = <<>>
    /\ mux # NoSession

(***************************************************************************)
(* C19: a configuration without layout (tmux.go 255-258, 160-167).         *)
(***************************************************************************)
\* createPaneLayout has been entered by the call, after set-option on the
\* fresh path (tmux.go 242-248), after a new-window that worked on the
\* rebuild path (tmux.go 210-216), and found no row in the layout
EmptyLayoutMet(r) ==
    /\ GetLayout(cfg) = <<>>
    /\ \E i \in 1..Len(r.log) :
          \/ r.log[i].cmd = "set-option"
          \/ r.log[i].cmd = "new-window" /\ r.log[i].ok

BuildOps == {"split-window", "send-keys", "select-pane"}

C19_FreshCase ==
    \E p \in DOMAIN run :
        /\ EmptyLayoutMet(run[p])
        /\ run[p].path = "fresh"
        /\ run[p].result = Returned(ConfigError)

(***************************************************************************)
(* C20: width hints of sub-panes (tmux.go 345-378, config.go 163-167).     *)
(***************************************************************************)
\* a layout without its width hints
NoWidths(layout) == WithWidths(layout, "none")

DifferOnlyInWidths(l1, l2) == l1 # l2 /\ NoWidths(l1) = NoWidths(l2)

\* C20: two layouts that differ only in the widths of sub-panes get the same
\* commands in the same order: the same splits with the same targets and
\* percentages, the same commands sent to the same panes; after each
\* command both builds are at the same place, and both end the same way.
C20_WidthsUnused ==
    (twin.on /\ DifferOnlyInWidths(twin.a.layout, twin.b.layout)) =>
        /\ twin.a.log = twin.b.log
        /\ twin.a.pc = twin.b.pc
        /\ twin.a.paneIndex = twin.b.paneIndex

\* C20 witness: two builds of layouts with a four-pane row, one with width
\* hints that differ pane by pane and one with none, are over after the
\* same horizontal splits and the same commands
C20_Witness ==
    /\ twin.on
    /\ DifferOnlyInWidths(twin.a.layout, twin.b.layout)
    /\ twin.a.pc = "done" /\ twin.b.pc = "done"
    /\ \E i \in 1..Len(twin.a.layout) :
          /\ Len(twin.a.layout[i].Panes) = 4
          /\ twin.a.layout[i].Panes[1].Width = <<"3", "0", "%">>
          /\ twin.b.layout[i].Panes[1].Width = <<>>
    /\ Len(SelectSeq(twin.a.log, IsHSplit)) >= 3
    /\ Len(SelectSeq(twin.a.log, IsLayoutSend)) >= 2
    /\ twin.a.log = twin.b.log

(***************************************************************************)
(* C21: Config.MarkTodoDone (config.go 259-266).                           *)
(***************************************************************************)
TodosMarked == conf.mode = "todos" /\ conf.done

\* the place of the first todo of worktree w, 0 when there is none
FirstOfWorktree(todos, w) ==
    IF \E i \in 1..Len(todos) : todos[i].Worktree = w
    THEN CHOOSE i \in 1..Len(todos) :
            /\ todos[i].Worktree = w
            /\ \A j \in 1..(i - 1) : todos[j].Worktree # w
    ELSE 0

\* C21: MarkTodoDone(w) makes done the first todo whose worktree is w and
\* changes nothing else: the list keeps its length, every todo keeps its
\* description and worktree, every other todo keeps its status, and with no
\* todo of worktree w the list is what it was.
C21_MarkTodoDone ==
    TodosMarked =>
        LET old == conf.todosGiven
            new == conf.todos
            k   == FirstOfWorktree(old, conf.worktree)
        IN  /\ Len(new) = Len(old)
            /\ \A i \in 1..Len(old) :
                  /\ new[i].Description = old[i].Description
                  /\ new[i].Worktree = old[i].Worktree
                  /\ new[i].Status = (IF i = k THEN TodoStatusDone ELSE old[i].Status)
            /\ k = 0 => new = old

\* C21 witness: of two pending todos of worktree-1 behind a pending todo of
\* worktree-2 the first has been marked, the second has not
C21_Witness ==
    /\ TodosMarked
    /\ conf.worktree = "worktree-1"
    /\ Len(conf.todosGiven) = 3
    /\ conf.todosGiven[1].Worktree = "worktree-2"
    /\ \A i \in 1..3 : conf.todosGiven[i].Status = TodoStatusPending
    /\ conf.todosGiven[2].Worktree = "worktree-1"
    /\ conf.todosGiven[3].Worktree = "worktree-1"
    /\ conf.todos[1].Status = TodoStatusPending
    /\ conf.todos[2].Status = TodoStatusDone
    /\ conf.todos[3].Status = TodoStatusPending

(***************************************************************************)
(* C22: two calls for one name at a time (tmux.go 150-248).                *)
(***************************************************************************)
BuildSteps ==
    {"split-desc", "setup-desc", "split-agent", "setup-agent", "vsplit", "hsplit",
     "send-pane", "send-row", "select-pane"}

\* the call is inside createPaneLayout: it has created or named its window
InBuild(r) == r.pc \in BuildSteps

IsOkSplit(op) == IsSplit(op) /\ op.ok

\* the panes the call counts on: the window's first and one per split of
\* its own that worked
OwnPanes(r) == 1 + Len(SelectSeq(r.log, IsOkSplit))

WindowGone == FindWindow(mux, name) = 0

\* the window the call addresses is gone, or holds other panes than the
\* call has made
Corrupted(r) ==
    \/ WindowGone
    \/ Len(mux.windows[FindWindow(mux, name)].panes) # OwnPanes(r)

\* the process has started a call
Active(q) == run[q].pc # "idle" \/ run[q].prevPath # ""

\* C22: calls for one name are not serialized.  A call inside its build can
\* find the window gone or holding panes it did not make, and this happens
\* only by the commands of another call that runs beside it.
C22_RaceCorrupts ==
    \A p \in DOMAIN run :
        (InBuild(run[p]) /\ Corrupted(run[p])) =>
            \E q \in DOMAIN run \ {p} : Active(q)

\* C22 witness: two calls are inside their builds at once, the window holds
\* more panes than the first has made, and the first is about to split or
\* send to the pane its counter names
C22_Witness ==
    /\ DOMAIN run = RaceProcs
    /\ InBuild(run[1]) /\ InBuild(run[2])
    /\ run[1].pc \in {"vsplit", "hsplit", "send-pane", "send-row"}
    /\ ~WindowGone
    /\ Len(mux.windows[FindWindow(mux, name)].panes) > OwnPanes(run[1])

\* a second case of C22: the other call has killed the window of the session
\* a call had just created, and that call's rename-window found no window
C22_WindowKilled ==
    /\ DOMAIN run = RaceProcs
    /\ run[1].path = "fresh"
    /\ \E i \in 1..Len(run[1].log) : IsRename(run[1].log[i]) /\ ~run[1].log[i].ok
    /\ \E i \in 1..Len(run[2].log) : IsKill(run[2].log[i]) /\ run[2].log[i].ok

(***************************************************************************)
(* C23: the panes the commands of the layout are sent to (tmux.go          *)
(* 345-391), pane indices being given in creation order.                   *)
(***************************************************************************)
\* the multiplexer keeps a pane's band: 0 for the description pane, 1 for
\* the agent pane, 2 + rowIdx for the panes of row rowIdx
RowBand(rowIdx) == 2 + rowIdx

\* no command of the call has failed (has-session tells that the session is
\* not there by failing)
NothingFailed(r) ==
    \A i \in 1..Len(r.log) : r.log[i].cmd # "has-session" => r.log[i].ok

\* the pane of place j of row rowIdx is sent a command
HasCommand(row, j) ==
    IF Len(row.Panes) > 0 THEN row.Panes[j + 1].Command # NoCmd
    ELSE row.Command # NoCmd

\* C23: after a build in which nothing failed, every index a command of the
\* layout was sent to (the first index of the row as the code counts it,
\* plus the place of the sub-pane) is the index of a pane of that row.
C23_CommandsReachTheirPanes ==
    \A p \in DOMAIN run :
        LET r == run[p]
        IN  (r.path = "fresh" /\ BuildCompleted(r) /\ NothingFailed(r) /\ ~WindowGone) =>
                LET panes == mux.windows[FindWindow(mux, name)].panes
                IN  \A rowIdx \in 0..(Len(r.layout) - 1) :
                      \A j \in 0..(RowPanes(r.layout[rowIdx + 1]) - 1) :
                        HasCommand(r.layout[rowIdx + 1], j) =>
                            LET target == RowStart(r.layout, rowIdx) + j
                            IN  /\ target < Len(panes)
                                /\ panes[target + 1].band = RowBand(rowIdx)

(***************************************************************************)
(* C24: the vertical pass on heights that do not sum to 100 (tmux.go       *)
(* 299-336).                                                               *)
(***************************************************************************)
HeightsInRange == \A i \in 1..Len(arith.heights) : arith.heights[i] \in 1..100

\* C24: when every effective height lies in 1..100, whatever the sum, the
\* vertical pass does not divide by zero and every percentage it gives to
\* split-window lies in 1..99.
C24_VerticalPassSafe ==
    (arith.mode = "strings" /\ HeightsInRange) =>
        /\ arith.step # "panic"
        /\ \A i \in 1..Len(arith.ops) : arith.ops[i].pct \in 1..99

\* the division by zero alone: heights in 1..100 and the pass has stopped
\* at a remainingPercent of zero
C24_DivideByZero ==
    /\ arith.mode = "strings"
    /\ HeightsInRange
    /\ Len(arith.heights) = 3
    /\ arith.heights[1] = 100
    /\ arith.step = "panic"

(***************************************************************************)
(* C25: how often a call attaches (tmux.go 158-167, 215-216, 399-400).     *)
(***************************************************************************)
Attaches(r) == SelectSeq(r.log, IsAttach)

\* C25: a call attaches at most once, and the attach step is the last
\* command it issues, on the fresh path, on the marker-found path and on the
\* rebuild path.
C25_AttachOnceAndLast ==
    \A p \in DOMAIN run :
        LET r == run[p]
        IN  /\ Len(Attaches(r)) <= 1
            /\ \A i \in 1..Len(r.log) : IsAttach(r.log[i]) => i = Len(r.log)

\* the rebuild path attaches twice: at the end of createPaneLayout and again
\* in CreateOrAttachSession, with no command failing
C25_DoubleAttach ==
    \E p \in DOMAIN run :
        LET r == run[p]
            n == Len(r.log)
        IN  /\ r.path = "rebuild"
            /\ r.pc = "done"
            /\ NothingFailed(r)
            /\ n >= 2
            /\ IsAttach(r.log[n - 1]) /\ IsAttach(r.log[n])

(***************************************************************************)
(* C26: the panes a build makes (tmux.go 250-391).                         *)
(***************************************************************************)
\* 2 + the sum over the rows of max(1, number of sub-panes)
PanesWanted(layout) == RowStart(layout, Len(layout))

\* the horizontal splits of the log that split the pane of index start
HSplitsOf(r, start) ==
    LET OfRow(op) == IsHSplit(op) /\ op.pane = start
    IN  Len(SelectSeq(r.log, OfRow))

CreatesWindow(op) == op.cmd \in {"new-session", "new-window"}

\* C26: after a build in which nothing failed the window holds 2 + the sum
\* over the rows of max(1, sub-panes) panes; the build has issued the two
\* splits of the prefix, one vertical split per row after the first, k - 1
\* horizontal splits for every row of k sub-panes and none for the other
\* rows, and has created no window or session after its first split.
C26_PaneCount ==
    \A p \in DOMAIN run :
        LET r == run[p]
            N == Len(r.layout)
        IN  (BuildCompleted(r) /\ NothingFailed(r)) =>
                /\ ~WindowGone
                /\ Len(mux.windows[FindWindow(mux, name)].panes) = PanesWanted(r.layout)
                /\ Len(SelectSeq(r.log, IsVSplit)) = 2 + (N - 1)
                /\ \A rowIdx \in 0..(N - 1) :
                      HSplitsOf(r, RowStart(r.layout, rowIdx)) =
                          RowPanes(r.layout[rowIdx + 1]) - 1
                /\ Len(Splits(r)) = PanesWanted(r.layout) - 1
                /\ \A i, j \in 1..Len(r.log) :
                      (IsSplit(r.log[i]) /\ CreatesWindow(r.log[j])) => j < i

\* C26 witness: a build of three rows of two, one and four sub-panes has
\* ended with nine panes in the window
C26_Witness ==
    \E p \in DOMAIN run :
        LET r == run[p]
        IN  /\ BuildCompleted(r) /\ NothingFailed(r)
            /\ Len(r.layout) = 3
            /\ Len(r.layout[1].Panes) = 2
            /\ Len(r.layout[2].Panes) = 1
            /\ Len(r.layout[3].Panes) = 4
            /\ ~WindowGone
            /\ Len(mux.windows[FindWindow(mux, name)].panes) = 9

(***************************************************************************)
(* C27: nothing is undone after a failure (tmux.go 222-248, 250-401).      *)
(***************************************************************************)
\* the command at place i of the log creates, names or splits, and failed
StructuralFailed(r, i) ==
    /\ i \in 1..Len(r.log)
    /\ r.log[i].cmd \in {"new-session", "new-window", "rename-window", "split-window"}
    /\ ~r.log[i].ok

IsAnyKill(op) == op.cmd \in {"kill-pane", "kill-window", "kill-session"}

\* C27: once a command that creates, names or splits has failed in a call,
\* the call issues no kill-pane, kill-window or kill-session, and no later
\* step of the call changes the session, its windows or their panes.
C27_NoRollback ==
    [][\A p \in DOMAIN run :
          \A i \in 1..Len(run[p].log) :
              StructuralFailed(run[p], i) =>
                  /\ \A j \in (i + 1)..Len(run[p].log) : ~IsAnyKill(run[p].log[j])
                  /\ mux' = mux]_vars

\* C27 witness: a horizontal split failed in a new session; the call has
\* returned its error and the window still holds the panes made before
C27_Witness ==
    \E p \in DOMAIN run :
        LET r == run[p]
            n == Len(r.log)
        IN  /\ r.path = "fresh"
            /\ r.pc = "done"
            /\ n >= 1
            /\ StructuralFailed(r, n)
            /\ IsHSplit(r.log[n])
            /\ r.result.state = "returned" /\ r.result.err # Nil
            /\ ~WindowGone
            /\ Len(mux.windows[FindWindow(mux, name)].panes) = OwnPanes(r)
            /\ OwnPanes(r) >= 4

(***************************************************************************)
(* C28: what the rebuild path leaves behind (tmux.go 199-217).             *)
(***************************************************************************)
\* C28: when the rebuild path has run and no command failed for an outside
\* reason, the session is there and has a window bearing the worktree name,
\* and the next call for the name finds that window and only attaches.
C28_RebuildLeavesMarker ==
    \A p \in DOMAIN run :
        LET r == run[p]
        IN  /\ (r.path = "rebuild" /\ r.pc = "done" /\ fails = 0) =>
                  /\ Addressed(mux, r.sessionName)
                  /\ ~WindowGone
            /\ (r.prevPath = "rebuild" /\ fails = 0 /\ r.pc = "done" /\ ~NotInstalled(r)) =>
                  /\ r.path = "marker"
                  /\ ~Issued(r, {"kill-window", "new-window", "new-session", "split-window"})

\* the session is gone after a rebuild: every window was killed, the last
\* kill ended the session, new-window found none
C28_SessionLost ==
    \E p \in DOMAIN run :
        LET r == run[p]
        IN  /\ r.path = "rebuild" /\ r.pc = "done" /\ fails = 0
            /\ ~mux.exists
            /\ \E i \in 1..Len(r.log) : IsNewWindow(r.log[i]) /\ ~r.log[i].ok

(***************************************************************************)
(* C29: the order of splits and commands in a build (tmux.go 312-391).     *)
(***************************************************************************)
\* a vertical split that makes a row (the two of the prefix split the
\* window's first pane and pane 1)
IsRowSplit(op) == IsVSplit(op) /\ op.pane >= FirstRowPane

\* the places of the log that hold a row split, a horizontal split, a
\* command of the layout
RowSplitsAt(r) == {i \in 1..Len(r.log) : IsRowSplit(r.log[i])}

HSplitsAt(r) == {i \in 1..Len(r.log) : IsHSplit(r.log[i])}

SendsAt(r) == {i \in 1..Len(r.log) : IsLayoutSend(r.log[i])}

\* C29 as stated: the vertical splits come before the horizontal ones, and
\* no split-window follows a command of the layout.
C29_Original ==
    \A p \in DOMAIN run :
        LET r == run[p]
        IN  /\ \A v \in RowSplitsAt(r), h \in HSplitsAt(r) : v < h
            /\ \A c \in SendsAt(r), x \in RowSplitsAt(r) \cup HSplitsAt(r) : x < c

\* C29 amended: every vertical split comes before every horizontal split
\* and before every command of the layout.  The second pass goes row by
\* row: the horizontal splits of a row come before the commands of that
\* row, and after the commands of the rows above it.
C29_PhaseOrder ==
    \A p \in DOMAIN run :
        LET r == run[p]
        IN  /\ \A v \in RowSplitsAt(r), x \in HSplitsAt(r) \cup SendsAt(r) : v < x
            /\ \A c \in SendsAt(r), h \in HSplitsAt(r) :
                  IF c < h THEN r.log[c].pane < r.log[h].pane
                  ELSE r.log[h].pane <= r.log[c].pane
            /\ \A g \in HSplitsAt(r), h \in HSplitsAt(r) :
                  g < h => r.log[g].pane <= r.log[h].pane

\* C29 witness: the command of the first row was sent before the three
\* horizontal splits of a later row, and that row's commands after them
C29_Witness ==
    \E p \in DOMAIN run :
        LET r == run[p]
        IN  /\ BuildCompleted(r)
            /\ \E i, j, k \in 1..Len(r.log) :
                  /\ i < j /\ j < k
                  /\ IsLayoutSend(r.log[i]) /\ r.log[i].pane = FirstRowPane
                  /\ IsHSplit(r.log[j]) /\ r.log[j].pane > FirstRowPane
                  /\ IsLayoutSend(r.log[k]) /\ r.log[k].pane > r.log[j].pane
            /\ Len(SelectSeq(r.log, IsHSplit)) >= 4
            /\ Len(SelectSeq(r.log, IsRowSplit)) >= 1

(***************************************************************************)
(* C30: reconciliation looks at window names only (tmux.go 182-220,        *)
(* 235-239).                                                               *)
(***************************************************************************)
\* the call has listed the windows of the session
HasListed(r) ==
    \E i \in 1..Len(r.log) : r.log[i].cmd = "list-windows" /\ r.log[i].ok

Bears(lines, n) == \E i \in 1..Len(lines) : lines[i] = n

SplitErrors ==
    {"failed to create description pane", "failed to create agent pane",
     "failed to create row", "failed to create horizontal pane"}

\* the call before this one made the session and ended at a split that failed
AfterAbortedBuild(r) ==
    /\ r.prevPath = "fresh"
    /\ r.prevResult.state = "returned"
    /\ r.prevResult.err.step \in SplitErrors

====
